---- MODULE Spec2Model ----
(***************************************************************************)
(* Weather-MTIME: the keyed provider client (OpenWeatherMapClient), the    *)
(* in-memory cache (MemoryCacheAdapter) and the weather repository         *)
(* (WeatherRepositoryImpl).                                                *)
(*                                                                         *)
(* Three specifications share the variables below:                        *)
(*   SpecClient   one keyed-client call at a time (geocoding + retry loop) *)
(*   SpecCountry  one getByCountry call at a time (fallback chain)         *)
(*   Spec         getByCity over the shared cache, with a clock            *)
(*                                                                         *)
(* Error messages are sequences of tokens; String.includes is modelled as  *)
(* "contains this run of tokens".  Messages are cut into tokens at every   *)
(* place where one of the markers the code searches for could start or     *)
(* end, so that the token test agrees with the substring test on every     *)
(* message the program builds here.                                        *)
(***************************************************************************)
EXTENDS Integers, Sequences, FiniteSets, TLC

VARIABLES
    cfg,          \* WeatherAPIConfig: maxRetries, retryDelay, timeout
    clientLog,    \* SpecClient: record of the last keyed-client call
    clientPc,     \* SpecClient: "idle" | "returned"
    countryLog,   \* SpecCountry: record of the last getByCountry call
    countryPc,    \* SpecCountry: "idle" | "returned"
    countryCitiesRepo, \* WeatherRepositoryImpl.countryCitiesRepo: "null" | "wired"
    now,          \* Date.now() in milliseconds
    cache,        \* MemoryCacheAdapter.cache: key -> entry, NoEntry when absent
    hist,         \* Spec: the last two operations on repository / cache
    providerLog,  \* SpecProviders: record of the last lookup through a provider client
    faultLog,     \* SpecCacheFaults: record of the last getByCity over a failing cache
    useCaseLog,   \* SpecUseCase: record of the last GetWeatherByCityUseCase.execute
    favoriteDocs, \* SpecFavorites: the documents of the favorites collection
    favoriteRuns, \* SpecFavorites: the AddFavoriteUseCase executions in progress
    weatherLog,   \* SpecWeather: record of the last Weather construction
    cacheLog      \* SpecCache: record of the last MemoryCacheAdapter operation

\* the logs of the specifications added after the first three
aux == <<providerLog, faultLog, useCaseLog, favoriteDocs, favoriteRuns, weatherLog, cacheLog>>

\* the variables of the first three specifications
core == <<cfg, clientLog, clientPc, countryLog, countryPc, countryCitiesRepo, now, cache, hist>>

\* the variables of the specifications that follow the use case's
others == <<favoriteDocs, favoriteRuns, weatherLog, cacheLog>>

vars == <<cfg, clientLog, clientPc, countryLog, countryPc, countryCitiesRepo,
          now, cache, hist, aux>>

----------------------------------------------------------------------------
(* Bounds of the model *)

MaxRetriesModel == 3      \* maxRetries ranges over 0..MaxRetriesModel
MaxLimit == 3             \* getByCountry limits range over 0..MaxLimit
MaxNow == 1200000         \* the clock stops advancing here
MaxRuns == 2              \* AddFavoriteUseCase executions that may overlap
MaxEvictions == 2         \* filler keys the full cache may lose before its client stops

----------------------------------------------------------------------------
(* Program constants *)

DefaultMaxRetries == 3
DefaultRetryDelay == 1000
DefaultTimeout == 5000
defaultTtlSeconds == 600
maxEntries == 100
DefaultMaxCities == 5

RetryDelays == {250, DefaultRetryDelay}

DefaultConfig == [maxRetries |-> DefaultMaxRetries, retryDelay |-> DefaultRetryDelay,
                  timeout |-> DefaultTimeout]

Configs == [maxRetries : 0..MaxRetriesModel, retryDelay : RetryDelays,
            timeout : {DefaultTimeout}]

----------------------------------------------------------------------------
(* Strings as token sequences *)

\* String.prototype.includes
Includes(msg, marker) ==
    \E i \in 1..(Len(msg) - Len(marker) + 1) :
        SubSeq(msg, i, i + Len(marker) - 1) = marker

LowerTok(t) ==
    CASE t = "Timeout" -> "timeout"
      [] t = "Network" -> "network"
      [] t = "Error"   -> "error"
      [] t = "API"     -> "api"
      [] t = "Invalid" -> "invalid"
      [] OTHER -> t

\* String.prototype.toLowerCase
ToLowerCase(msg) == [i \in DOMAIN msg |-> LowerTok(msg[i])]

----------------------------------------------------------------------------
(* Errors (shared/errors/DomainError.ts, AxiosError, Error) *)

NoError == [cls |-> "none", code |-> "", httpCode |-> 0, isOperational |-> TRUE,
            isAxios |-> FALSE, hasResponse |-> FALSE, hasRequest |-> FALSE,
            status |-> 0, retryAfter |-> 0, msg |-> <<>>]

DomainError(cls, message, code, isOperational, httpCode) ==
    [NoError EXCEPT !.cls = cls, !.msg = message, !.code = code,
                    !.isOperational = isOperational, !.httpCode = httpCode]

ApiError(message, service, statusCode, isOperational) ==
    DomainError("ApiError",
                <<"Error", "en", "servicio", service, ":">> \o message,
                "EXTERNAL_API_ERROR", isOperational, statusCode)

ApiErrorTimeout(service, timeoutMs) ==
    ApiError(<<"Tiempo", "de", "espera", "agotado", "(", ToString(timeoutMs), "ms", ")">>,
             service, 0, TRUE)

ApiErrorRateLimit(service, retryAfter) ==
    ApiError(IF retryAfter # 0
             THEN <<"Limite", "de", "peticiones", "excedido", ".", "Reintentar",
                    "despues", "de", ToString(retryAfter), "s">>
             ELSE <<"Limite", "de", "peticiones", "excedido">>,
             service, 429, TRUE)

NotFoundError(resource, identifier) ==
    DomainError("NotFoundError",
                <<resource, "con", "identificador", "'">> \o identifier
                    \o <<"'", "no", "fue", "encontrado">>,
                "RESOURCE_NOT_FOUND", TRUE, 404)

ConfigurationError(service, missingField) ==
    DomainError("ConfigurationError",
                <<"Falta", "configuracion", "'", missingField, "'", "para", service>>,
                "CONFIGURATION_ERROR", TRUE, 500)

ApplicationError(message, code) ==
    DomainError("ApplicationError", message, code, TRUE, 500)

\* a plain `new Error(message)`
PlainError(message) ==
    [NoError EXCEPT !.cls = "Error", !.msg = message]

\* the AxiosError axios rejects with
AxiosError(message, hasRequest, hasResponse, status, retryAfter) ==
    [NoError EXCEPT !.cls = "AxiosError", !.isAxios = TRUE, !.msg = message,
                    !.hasRequest = hasRequest, !.hasResponse = hasResponse,
                    !.status = status, !.retryAfter = retryAfter]

----------------------------------------------------------------------------
(* What the upstream does with one HTTP request *)

\* `absent` names the optional fields (visibility, deg, name, country, ...)
\* that are undefined in the payload; their value in the record is then unused
NoBody == [shape |-> "none", cod |-> 0, message |-> <<>>, temp |-> 0,
           conds |-> <<>>, name |-> "", country |-> "", results |-> 0,
           lat |-> 0, lon |-> 0, pressure |-> 0, humidity |-> 0,
           visibility |-> 0, windSpeed |-> 0, deg |-> 0, absent |-> {}]

\* one element of the `weather` array
Cond(main, description) == [main |-> main, description |-> description]

\* a well-formed current-weather payload for a place
WeatherBody(place) == [NoBody EXCEPT !.shape = "weather", !.cod = 200, !.temp = 293,
                                     !.conds = <<Cond("Clouds", "scattered clouds")>>,
                                     !.name = place.name,
                                     !.country = place.country,
                                     !.lat = 40, !.lon = -3, !.pressure = 1013,
                                     !.humidity = 50, !.visibility = 10000,
                                     !.windSpeed = 3, !.deg = 180]
\* well-formed for the schema (weather: z.array(...)), but no condition entry
NoCondBody(place) == [WeatherBody(place) EXCEPT !.conds = <<>>]
\* a payload the schema rejects (e.g. humidity 150)
InvalidBody == [NoBody EXCEPT !.shape = "invalid", !.cod = 200]
\* upstream error envelopes { cod, message } delivered with a 2xx status
Envelope401 == [NoBody EXCEPT !.shape = "envelope", !.cod = 401,
                              !.message = <<"Invalid", "API", "key">>]
Envelope404 == [NoBody EXCEPT !.shape = "envelope", !.cod = 404,
                              !.message = <<"city", "not", "found">>]
\* geocoding payloads: an array with `results` elements, the first one `place`
GeoBody(n, place) == [NoBody EXCEPT !.shape = "geo", !.results = n,
                                    !.name = IF n > 0 THEN place.name ELSE "",
                                    !.country = IF n > 0 THEN place.country ELSE ""]

Place(name, country) == [name |-> name, country |-> country]

Wire(kind, status, retryAfter, body) ==
    [kind |-> kind, status |-> status, retryAfter |-> retryAfter, body |-> body]

\* outcomes of GET /weather
WeatherOutcomes(place) ==
    { Wire("ok", 200, 0, b) : b \in {WeatherBody(place), NoCondBody(place), InvalidBody,
                                      Envelope401, Envelope404} }
    \cup { Wire("http", s, 0, NoBody) : s \in {400, 401, 404, 408, 429, 500} }
    \cup { Wire("http", 429, 2, NoBody) }
    \cup { Wire(k, 0, 0, NoBody) : k \in {"timeout", "network", "norequest"} }

\* outcomes of GET /geo/1.0/direct
GeoOutcomes(place) ==
    { Wire("ok", 200, 0, GeoBody(n, place)) : n \in {0, 1} }
    \cup { Wire("http", s, 0, NoBody) : s \in {401, 429, 500} }
    \cup { Wire(k, 0, 0, NoBody) : k \in {"timeout", "network"} }

\* the AxiosError axios itself rejects with for a failed request
RawAxiosError(c, o) ==
    CASE o.kind = "http" ->
            AxiosError(<<"Request", "failed", "with", "status", "code", ToString(o.status)>>,
                       TRUE, TRUE, o.status, o.retryAfter)
      [] o.kind = "timeout" ->
            AxiosError(<<"timeout", "of", ToString(c.timeout), "ms", "exceeded">>,
                       TRUE, FALSE, 0, 0)
      [] o.kind = "network" ->
            AxiosError(<<"Network", "Error">>, TRUE, FALSE, 0, 0)
      [] OTHER ->
            AxiosError(<<"Invalid", "URL">>, FALSE, FALSE, 0, 0)

----------------------------------------------------------------------------
(* OpenWeatherMapClient *)

Resolved(data) == [ok |-> TRUE, data |-> data, err |-> NoError]
Rejected(err) == [ok |-> FALSE, data |-> NoBody, err |-> err]

\* the response interceptor installed on this.client (not on this.geoClient)
responseInterceptor(c, o) ==
    IF o.kind = "ok" THEN Resolved(o.body)
    ELSE LET error == RawAxiosError(c, o)
         IN  IF error.hasResponse
             THEN CASE error.status = 401 ->
                          Rejected(ConfigurationError("OpenWeatherMap", "API_KEY_INVALID"))
                    [] error.status = 403 ->
                          Rejected(ApiError(<<"Acceso", "denegado">>, "OpenWeatherMap", 403, TRUE))
                    [] error.status = 404 ->
                          Rejected(ApiError(<<"Recurso", "no", "encontrado">>, "OpenWeatherMap", 404, TRUE))
                    [] error.status = 429 ->
                          Rejected(ApiErrorRateLimit("OpenWeatherMap", error.retryAfter))
                    [] OTHER -> Rejected(error)
             ELSE IF error.hasRequest
             THEN Rejected(ApiErrorTimeout("OpenWeatherMap", c.timeout))
             ELSE Rejected(error)

\* WeatherAPIResponse.isAPIError: the payload has cod and a string message
isAPIError(data) == data.shape = "envelope"

\* the country codes of this model that are two characters long
TwoCharacterCodes == {"ES", "SG", "XX"}

\* OpenWeatherResponseSchema on a payload that has all the required fields:
\* CoordinateSchema, MainSchema, visibility, WindSchema, SysSchema (country is
\* optional)
OpenWeatherResponseSchema(data) ==
    /\ data.lat >= -90 /\ data.lat <= 90
    /\ data.lon >= -180 /\ data.lon <= 180
    /\ data.pressure > 0
    /\ data.humidity >= 0 /\ data.humidity <= 100
    /\ ("visibility" \in data.absent \/ (data.visibility >= 0 /\ data.visibility <= 10000))
    /\ "windSpeed" \notin data.absent /\ data.windSpeed >= 0
    /\ "name" \notin data.absent
    /\ ("country" \in data.absent \/ data.country \in TwoCharacterCodes)

\* WeatherAPIResponse.parseWeatherResponse
parseWeatherResponse(data) ==
    IF data.shape = "weather" /\ OpenWeatherResponseSchema(data)
    THEN Resolved(data)
    ELSE Rejected(PlainError(<<"Respuesta", "de", "API", "invalida", ":", "ZodError">>))

isRateLimitError(error) ==
    IF error.isAxios /\ error.hasResponse THEN error.status = 429 ELSE FALSE

\* milliseconds, 0 for null
getRetryAfter(error) ==
    IF error.isAxios /\ error.hasResponse /\ error.retryAfter # 0
    THEN error.retryAfter * 1000
    ELSE 0

isRetryableError(error) ==
    IF error.isAxios
    THEN IF ~error.hasResponse
         THEN TRUE
         ELSE error.status >= 500 \/ error.status = 429 \/ error.status = 408
    ELSE IF error.cls # "none"
         THEN Includes(ToLowerCase(error.msg), <<"timeout">>)
         ELSE FALSE

\* the body of the try block of executeWithRetry for one attempt
attemptOnce(c, o) ==
    LET response == responseInterceptor(c, o)
    IN  IF ~response.ok THEN response
        ELSE IF isAPIError(response.data)
        THEN Rejected(PlainError(<<"API", "Error", ToString(response.data.cod), ":">>
                                 \o response.data.message))
        ELSE parseWeatherResponse(response.data)

\* does the loop go on to a next iteration after this outcome
loopContinues(c, o) ==
    LET r == attemptOnce(c, o)
    IN  ~r.ok /\ (isRateLimitError(r.err) \/ isRetryableError(r.err))

MaxRetriesExceeded(c) ==
    ApplicationError(<<"Fallaron", "todos", "los", "intentos", "despues", "de",
                       ToString(c.maxRetries), "veces">>, "MAX_RETRIES_EXCEEDED")

RetryResult(ok, data, err, requests, delays) ==
    [ok |-> ok, data |-> data, err |-> err, requests |-> requests, delays |-> delays]

\* retryLoop with a constant backoff: retryDelay instead of retryDelay * attempt
RECURSIVE retryLoop_constantDelay(_, _, _, _)
retryLoop_constantDelay(c, trace, attempt, delays) ==
    IF attempt > c.maxRetries
    THEN RetryResult(FALSE, NoBody, MaxRetriesExceeded(c), attempt - 1, delays)
    ELSE LET r == attemptOnce(c, trace[attempt])
         IN  IF r.ok
             THEN RetryResult(TRUE, r.data, NoError, attempt, delays)
             ELSE IF isRateLimitError(r.err)
             THEN LET retryAfter == IF getRetryAfter(r.err) # 0
                                    THEN getRetryAfter(r.err)
                                    ELSE c.retryDelay
                  IN  retryLoop_constantDelay(c, trace, attempt + 1, Append(delays, retryAfter))
             ELSE IF ~isRetryableError(r.err)
             THEN RetryResult(FALSE, NoBody, r.err, attempt, delays)
             ELSE retryLoop_constantDelay(c, trace, attempt + 1,
                                          Append(delays, IF attempt < c.maxRetries
                                                         THEN c.retryDelay
                                                         ELSE 0))

\* executeWithRetry: trace[k] is what the upstream does with the k-th request;
\* delays[k] is the time waited after attempt k
RECURSIVE retryLoop(_, _, _, _)
retryLoop(c, trace, attempt, delays) ==
    IF attempt > c.maxRetries
    THEN RetryResult(FALSE, NoBody, MaxRetriesExceeded(c), attempt - 1, delays)
    ELSE LET r == attemptOnce(c, trace[attempt])
         IN  IF r.ok
             THEN RetryResult(TRUE, r.data, NoError, attempt, delays)
             ELSE IF isRateLimitError(r.err)
             THEN LET retryAfter == IF getRetryAfter(r.err) # 0
                                    THEN getRetryAfter(r.err)
                                    ELSE c.retryDelay * attempt
                  IN  retryLoop(c, trace, attempt + 1, Append(delays, retryAfter))
             ELSE IF ~isRetryableError(r.err)
             THEN RetryResult(FALSE, NoBody, r.err, attempt, delays)
             ELSE retryLoop(c, trace, attempt + 1,
                            Append(delays, IF attempt < c.maxRetries
                                           THEN c.retryDelay * attempt
                                           ELSE 0))

executeWithRetry(c, trace) == retryLoop(c, trace, 1, <<>>)

\* the upstream behaviours executeWithRetry can consume with n attempts left
RECURSIVE WeatherTraces(_, _, _)
WeatherTraces(c, n, place) ==
    IF n = 0 THEN { <<>> }
    ELSE { <<o>> : o \in { w \in WeatherOutcomes(place) : ~loopContinues(c, w) } }
         \cup { <<o>> \o t : o \in { w \in WeatherOutcomes(place) : loopContinues(c, w) },
                             t \in WeatherTraces(c, n - 1, place) }

\* the upstream behaviours a city-name lookup can consume after geocoding outcome g
TracesAfter(c, g) ==
    IF g.kind = "ok" /\ g.body.results > 0
    THEN WeatherTraces(c, c.maxRetries, Place(g.body.name, g.body.country))
    ELSE { <<>> }

\* resolveCoordinates: one request through this.geoClient, outside any retry loop
resolveCoordinates(c, cityName, countryCode, g) ==
    LET query == IF countryCode # "" THEN <<cityName, ",", countryCode>> ELSE <<cityName>>
    IN  IF g.kind # "ok" THEN Rejected(RawAxiosError(c, g))
        ELSE IF g.body.results = 0
        THEN Rejected(ApiError(<<"No", "se", "encontraron", "coordenadas", "para">> \o query,
                               "OpenWeatherMap", 404, TRUE))
        ELSE Resolved(g.body)

ClientResult(op, ok, data, err, geo, geoRequests, attempts, delays) ==
    [op |-> op, ok |-> ok, data |-> data, err |-> err, geo |-> geo,
     geoRequests |-> geoRequests, attempts |-> attempts, delays |-> delays]

NoGeo == Wire("none", 0, 0, NoBody)

getCurrentWeatherByCoordinates(c, trace) ==
    LET r == executeWithRetry(c, trace)
    IN  ClientResult("byCoordinates", r.ok, r.data, r.err, NoGeo, 0,
                     SubSeq(trace, 1, r.requests), r.delays)

getCurrentWeatherByCityName(c, cityName, countryCode, g, trace) ==
    LET coords == resolveCoordinates(c, cityName, countryCode, g)
    IN  IF ~coords.ok
        THEN ClientResult("byCityName", FALSE, NoBody, coords.err, g, 1, <<>>, <<>>)
        ELSE LET r == getCurrentWeatherByCoordinates(c, trace)
             IN  [r EXCEPT !.op = "byCityName", !.geo = g, !.geoRequests = 1]

NoClientLog == ClientResult("none", FALSE, NoBody, NoError, NoGeo, 0, <<>>, <<>>)

\* SpecClient: a caller invokes the client and receives the outcome
ClientCallByCityName ==
    /\ clientPc = "idle"
    /\ \E cityName \in {"Madrid"}, countryCode \in {"ES", ""} :
         \E g \in GeoOutcomes(Place(cityName, "ES")) :
            \E trace \in TracesAfter(cfg, g) :
               clientLog' = getCurrentWeatherByCityName(cfg, cityName, countryCode, g, trace)
    /\ clientPc' = "returned"
    /\ UNCHANGED <<aux, cfg, countryLog, countryPc, countryCitiesRepo, now, cache, hist>>

ClientCallByCoordinates ==
    /\ clientPc = "idle"
    /\ \E trace \in WeatherTraces(cfg, cfg.maxRetries, Place("Madrid", "ES")) :
            clientLog' = getCurrentWeatherByCoordinates(cfg, trace)
    /\ clientPc' = "returned"
    /\ UNCHANGED <<aux, cfg, countryLog, countryPc, countryCitiesRepo, now, cache, hist>>

ClientReturn ==
    /\ clientPc = "returned"
    /\ clientPc' = "idle"
    /\ clientLog' = NoClientLog
    /\ UNCHANGED <<aux, cfg, countryLog, countryPc, countryCitiesRepo, now, cache, hist>>

----------------------------------------------------------------------------
(* MemoryCacheAdapter: the Map as a sequence of entries in insertion order *)

Entry(key, value, expiresAt, lastAccessed) ==
    [key |-> key, value |-> value, expiresAt |-> expiresAt, lastAccessed |-> lastAccessed]

\* position of key in the map, 0 when absent
IndexOf(c, key) ==
    IF \E i \in 1..Len(c) : c[i].key = key
    THEN CHOOSE i \in 1..Len(c) : c[i].key = key
    ELSE 0

\* the entry of key in map c (only used when the key is present)
EntryOf(c, key) == c[IndexOf(c, key)]

HasKey(c, key) == \E i \in 1..Len(c) : c[i].key = key

\* Map.delete
MapDelete(c, key) ==
    LET i == IndexOf(c, key)
    IN  IF i = 0 THEN c ELSE SubSeq(c, 1, i - 1) \o SubSeq(c, i + 1, Len(c))

\* Map.set: an existing key keeps its position
MapSet(c, e) ==
    LET i == IndexOf(c, e.key)
    IN  IF i = 0 THEN Append(c, e) ELSE [c EXCEPT ![i] = e]

Null == [isNull |-> TRUE]

\* cacheGet with the expiry test `>=`: an entry is dropped at its expiry instant
cacheGet_expiresAtBoundary(c, key, t) ==
    LET i == IndexOf(c, key)
    IN  IF i = 0
        THEN [value |-> Null, cache |-> c]
        ELSE IF t >= c[i].expiresAt
        THEN [value |-> Null, cache |-> MapDelete(c, key)]
        ELSE [value |-> c[i].value, cache |-> [c EXCEPT ![i].lastAccessed = t]]

\* cacheGet without the expiry test
cacheGet_neverExpires(c, key, t) ==
    LET i == IndexOf(c, key)
    IN  IF i = 0
        THEN [value |-> Null, cache |-> c]
        ELSE [value |-> c[i].value, cache |-> [c EXCEPT ![i].lastAccessed = t]]

\* cacheGet that misses on an expired entry but leaves it in the map
cacheGet_keepsExpired(c, key, t) ==
    LET i == IndexOf(c, key)
    IN  IF i = 0
        THEN [value |-> Null, cache |-> c]
        ELSE IF t > c[i].expiresAt
        THEN [value |-> Null, cache |-> c]
        ELSE [value |-> c[i].value, cache |-> [c EXCEPT ![i].lastAccessed = t]]

\* MemoryCacheAdapter.get at instant t: the value (Null on a miss) and the map afterwards
cacheGet(c, key, t) ==
    LET i == IndexOf(c, key)
    IN  IF i = 0
        THEN [value |-> Null, cache |-> c]
        ELSE IF t > c[i].expiresAt
        THEN [value |-> Null, cache |-> MapDelete(c, key)]
        ELSE [value |-> c[i].value, cache |-> [c EXCEPT ![i].lastAccessed = t]]

\* MemoryCacheAdapter.evictOldest at instant t
evictOldest(c, t) ==
    LET expired == { i \in 1..Len(c) : t > c[i].expiresAt }
    IN  IF expired # {}
        THEN LET i == CHOOSE j \in expired : \A k \in expired : j <= k
             IN  MapDelete(c, c[i].key)
        ELSE IF Len(c) = 0 THEN c
        ELSE LET i == CHOOSE j \in 1..Len(c) :
                         /\ \A k \in 1..Len(c) : c[j].lastAccessed <= c[k].lastAccessed
                         /\ \A k \in 1..(j - 1) : c[k].lastAccessed > c[j].lastAccessed
             \* `if (oldestKey)`: the empty string is falsy, nothing is deleted
             IN  IF c[i].key = "" THEN c ELSE MapDelete(c, c[i].key)

\* MemoryCacheAdapter.set at instant t (ttlSeconds = 0 stands for "not given")
cacheSet(c, key, value, ttlSeconds, t) ==
    LET c1 == IF Len(c) >= maxEntries THEN evictOldest(c, t) ELSE c
        ttl == IF ttlSeconds # 0 THEN ttlSeconds ELSE defaultTtlSeconds
    IN  MapSet(c1, Entry(key, value, t + ttl * 1000, t))

----------------------------------------------------------------------------
(* WeatherRepositoryImpl: mapping and error classification *)

TemperatureUnits == {"celsius", "fahrenheit", "kelvin"}

\* UNIT_TO_API_PARAM with kelvin sent as 'metric'
UNIT_TO_API_PARAM_kelvinAsMetric(units) ==
    CASE units = "celsius" -> "metric"
      [] units = "fahrenheit" -> "imperial"
      [] units = "kelvin" -> "metric"
      [] OTHER -> "undefined"

UNIT_TO_API_PARAM(units) ==
    CASE units = "celsius" -> "metric"
      [] units = "fahrenheit" -> "imperial"
      [] units = "kelvin" -> "standard"
      [] OTHER -> "undefined"

WeatherConditions == {"Clear", "Clouds", "Rain", "Drizzle", "Thunderstorm",
                      "Snow", "Mist", "Fog", "Haze"}

API_CONDITION_TO_DOMAIN(main) ==
    IF main \in WeatherConditions THEN main ELSE "Clear"

\* Weather constructor: validateTemperature (values are whole kelvins here)
validateTemperature(temperature) == temperature >= -273

\* Weather constructor: validateHumidity
validateHumidity(humidity) == ~(humidity < 0 \/ humidity > 100)

\* Weather constructor: validatePressure
validatePressure(pressure) == ~(pressure < 0)

\* new Weather(...): the three validations of the constructor; the other
\* arguments are stored as given
Weather(temperature, pressure, humidity, visibility, windSpeed, windDirection, condition, description) ==
    IF ~validateTemperature(temperature)
    THEN Rejected(PlainError(<<"Valor", "de", "temperatura", "invalido">>))
    ELSE IF ~validateHumidity(humidity)
    THEN Rejected(PlainError(<<"La", "humedad", "debe", "estar", "entre", "0", "y", "100">>))
    ELSE IF ~validatePressure(pressure)
    THEN Rejected(PlainError(<<"Valor", "de", "presion", "invalido">>))
    ELSE Resolved([temperature |-> temperature, pressure |-> pressure,
                   humidity |-> humidity, visibility |-> visibility,
                   windSpeed |-> windSpeed, windDirection |-> windDirection,
                   condition |-> condition, description |-> description])

\* `value || fallback` on a number that may be undefined: undefined and 0 are
\* both falsy
OrElse(apiResponse, field, fallback) ==
    IF field \in apiResponse.absent \/ apiResponse[field] = 0
    THEN fallback
    ELSE apiResponse[field]

mapAPIToWeather(apiResponse) ==
    IF Len(apiResponse.conds) = 0
    THEN Rejected(PlainError(<<"Formato", "de", "respuesta", "de", "API", "invalido">>))
    ELSE LET primaryWeather == apiResponse.conds[1]
             w == Weather(apiResponse.temp, apiResponse.pressure, apiResponse.humidity,
                          OrElse(apiResponse, "visibility", 10000),
                          OrElse(apiResponse, "windSpeed", 0),
                          OrElse(apiResponse, "deg", 0),
                          API_CONDITION_TO_DOMAIN(primaryWeather.main),
                          primaryWeather.description)
         IN  IF w.ok THEN w
             ELSE Rejected(PlainError(<<"Formato", "de", "respuesta", "de", "API", "invalido">>))

\* City.validateName / validateCountry on the names this model uses
CityAccepts(name, country) == name # "" /\ country # ""

mapAPIToCity(apiResponse) ==
    LET name == IF "name" \in apiResponse.absent THEN "Unknown" ELSE apiResponse.name
        country == IF "country" \in apiResponse.absent THEN "unknown"
                                                       ELSE apiResponse.country
    IN  IF CityAccepts(name, country)
        THEN Resolved([name |-> name, country |-> country])
        ELSE Rejected(PlainError(<<"Formato", "de", "respuesta", "de", "API", "invalido", ":">>))

isOperationalError(message) ==
    LET lowerMessage == ToLowerCase(message)
    IN  \E pattern \in { <<"timeout">>, <<"rate", "limit">>, <<"too", "many", "requests">>,
                         <<"network">>, <<"connection">>, <<"service", "unavailable">> } :
            Includes(lowerMessage, pattern)

\* WeatherRepositoryImpl.handleAPIError
handleAPIError(error, context) ==
    IF error.cls # "none"
    THEN IF Includes(error.msg, <<"404">>) \/ Includes(error.msg, <<"not", "found">>)
         THEN NotFoundError("Ciudad", context)
         ELSE IF Includes(error.msg, <<"401">>) \/ Includes(error.msg, <<"Invalid", "API", "key">>)
         THEN ConfigurationError("OpenWeatherMap", "API_KEY")
         ELSE IF Includes(error.msg, <<"429">>) \/ Includes(error.msg, <<"rate", "limit">>)
         THEN ApiErrorRateLimit("OpenWeatherMap", 0)
         ELSE IF Includes(ToLowerCase(error.msg), <<"timeout">>)
         THEN ApiErrorTimeout("OpenWeatherMap", 5000)
         ELSE ApiError(<<"Error", "al", "consultar", "el", "clima", ":">> \o error.msg,
                       "OpenWeatherMap", 0, isOperationalError(error.msg))
    ELSE ApplicationError(<<"Error", "al", "comunicarse", "con", "el", "servicio", "de", "clima">>,
                          "API_UNKNOWN_ERROR")

----------------------------------------------------------------------------
(* WeatherRepositoryImpl.getByCity *)

Params(name, country, units) == [name |-> name, country |-> country, units |-> units]

\* the queries the model issues
QueryParams == { Params("Madrid", "ES", "celsius"),
                 Params("Madrid", "ES", "kelvin") }

\* the same city with every unit, and with no unit ("")
UnitQueryParams == { Params("Madrid", "ES", u) : u \in TemperatureUnits \cup {""} }

\* `weather:city:${name}:${country}:${units}`
CacheKey(params) == <<"weather", "city", params.name, params.country, params.units>>

\* City.toString
CityToString(city) == <<city.name, ",", city.country>>

NoResult == [isNull |-> TRUE]
WeatherResult(weather, city, requestedAt) ==
    [isNull |-> FALSE, weather |-> weather, city |-> city, requestedAt |-> requestedAt]

\* what one getByCity call did: the record kept in hist.  `stale` tells that the
\* call found an entry for its key that was past its expiry.
CityCall(params, at, hit, stale, calls, ok, result, err, last) ==
    [op |-> "getByCity", params |-> params, at |-> at, hit |-> hit, stale |-> stale,
     calls |-> calls, ok |-> ok, result |-> result, err |-> err, last |-> last]

\* the last wire outcome a client call saw: of the weather request, else of geocoding
LastWire(r) == IF Len(r.attempts) > 0
               THEN [req |-> "weather", wire |-> r.attempts[Len(r.attempts)]]
               ELSE [req |-> "geo", wire |-> r.geo]
NoWire == [req |-> "none", wire |-> NoGeo]

\* what the repository sees of one apiClient.getCurrentWeatherByCityName call
ProviderResult(r) == [ok |-> r.ok, data |-> r.data, err |-> r.err, last |-> LastWire(r)]

\* every outcome the keyed client can produce for a city-name lookup
ProviderResults ==
    [c \in {DefaultConfig}, params \in UnitQueryParams |->
        UNION { { ProviderResult(getCurrentWeatherByCityName(c, params.name, params.country,
                                                             g, trace)) :
                    trace \in TracesAfter(c, g) } :
                g \in GeoOutcomes(Place(params.name, params.country)) }]

\* getByCity at instant t, where r is what the provider call (if it is issued)
\* yields at instant t2.  Gives the call record and the cache afterwards.
getByCity(cch, params, t, t2, r) ==
    LET cacheKey == CacheKey(params)
        i == IndexOf(cch, cacheKey)
        stale == i # 0 /\ t > cch[i].expiresAt
        cached == cacheGet(cch, cacheKey, t)
    IN  IF ~cached.value.isNull
        THEN [call |-> CityCall(params, t, TRUE, FALSE, 0, TRUE, cached.value, NoError, NoWire),
              cache |-> cached.cache]
        ELSE LET weather == IF r.ok THEN mapAPIToWeather(r.data) ELSE Rejected(r.err)
                 city == IF weather.ok THEN mapAPIToCity(r.data) ELSE Rejected(weather.err)
             IN  IF city.ok
                 THEN LET result == WeatherResult(weather.data, city.data, t2)
                      IN  [call |-> CityCall(params, t, FALSE, stale, 1, TRUE, result,
                                             NoError, r.last),
                           cache |-> cacheSet(cached.cache, cacheKey, result, 0, t2)]
                 ELSE [call |-> CityCall(params, t, FALSE, stale, 1, FALSE, NoResult,
                                         handleAPIError(city.err, CityToString(params)),
                                         r.last),
                       cache |-> cached.cache]

TickStep == defaultTtlSeconds * 1000
Elapsed == {0, TickStep}

OtherOp(name) == [op |-> name]

\* hist keeps the last two operations, the older one without its error details
Older(rec) == IF rec.op = "getByCity"
              THEN [rec EXCEPT !.err = NoError, !.last = NoWire]
              ELSE rec
Push(h, rec) == IF Len(h) = 0 THEN <<rec>> ELSE <<Older(h[Len(h)]), rec>>

GetByCity ==
    \E params \in QueryParams, elapsed \in Elapsed :
      \E r \in ProviderResults[cfg, params] :
          LET hitNow == ~cacheGet(cache, CacheKey(params), now).value.isNull
              t2 == IF hitNow THEN now ELSE now + elapsed
              out == getByCity(cache, params, now, t2, r)
          IN  /\ t2 <= MaxNow
              /\ now' = t2
              /\ cache' = out.cache
              /\ hist' = Push(hist, out.call)
              /\ UNCHANGED <<aux, cfg, clientLog, clientPc, countryLog, countryPc, countryCitiesRepo>>

\* time passes between operations
Tick ==
    /\ now + TickStep <= MaxNow
    /\ now' = now + TickStep
    /\ UNCHANGED <<aux, cfg, clientLog, clientPc, countryLog, countryPc, countryCitiesRepo,
                   cache, hist>>

\* MemoryCacheAdapter.delete, called by another user of the shared cache
CacheDelete ==
    /\ \E params \in QueryParams :
         /\ IndexOf(cache, CacheKey(params)) # 0
         /\ cache' = MapDelete(cache, CacheKey(params))
    /\ hist' = Push(hist, OtherOp("delete"))
    /\ UNCHANGED <<aux, cfg, clientLog, clientPc, countryLog, countryPc, countryCitiesRepo, now>>

\* MemoryCacheAdapter.clear
CacheClear ==
    /\ Len(cache) > 0
    /\ cache' = <<>>
    /\ hist' = Push(hist, OtherOp("clear"))
    /\ UNCHANGED <<aux, cfg, clientLog, clientPc, countryLog, countryPc, countryCitiesRepo, now>>

----------------------------------------------------------------------------
(* WeatherRepositoryImpl.getByCountry *)

\* String.prototype.toUpperCase on the country codes used here
ToUpperCase(code) ==
    CASE code = "es" -> "ES"
      [] code = "sg" -> "SG"
      [] code = "xx" -> "XX"
      [] OTHER -> code

\* rows of CITIES_BY_COUNTRY; every other code has no row
CITIES_BY_COUNTRY(code) ==
    CASE code = "ES" -> <<"Madrid", "Barcelona", "Valencia", "Sevilla", "Bilbao">>
      [] code = "SG" -> <<"Singapore">>
      [] OTHER -> <<>>

\* getCitiesForCountry: the row, or the empty sequence for undefined
getCitiesForCountry(countryCode) == CITIES_BY_COUNTRY(ToUpperCase(countryCode))

\* normalizeCityNameForApi: strip diacritics, collapse runs of blanks, trim
normalizeCityNameForApi(name) ==
    CASE name = "La  Coruna" -> "La Coruna"
      [] name = " Vigo" -> "Vigo"
      [] OTHER -> name

\* what countryCitiesRepo.getCitiesByCountry does
PersistedOutcomes ==
    { [kind |-> "throws", cities |-> <<>>],
      [kind |-> "undefined", cities |-> <<>>],
      [kind |-> "list", cities |-> <<>>],
      [kind |-> "list", cities |-> <<" Vigo", "La  Coruna">>],
      [kind |-> "list", cities |-> <<"Madrid", "Barcelona", "Valencia", "Sevilla",
                                     "Bilbao", "Malaga">>] }
NotAsked == [kind |-> "notAsked", cities |-> <<>>]

\* what apiClient.getCitiesByCountry does: it throws, or returns n responses of
\* which `bad` ones cannot be mapped to domain entities
DynamicOutcomes ==
    { [kind |-> "throws", n |-> 0, bad |-> 0],
      [kind |-> "list", n |-> 0, bad |-> 0],
      [kind |-> "list", n |-> 1, bad |-> 0],
      [kind |-> "list", n |-> 2, bad |-> 0],
      [kind |-> "list", n |-> 2, bad |-> 1] }
NoDynamic == [kind |-> "notCalled", n |-> 0, bad |-> 0]

Min(a, b) == IF a <= b THEN a ELSE b

\* the (name, country) combinations in the order they are tried
Variants(cityName, countryCode) ==
    << [name |-> cityName, country |-> countryCode],
       [name |-> cityName, country |-> ""],
       [name |-> normalizeCityNameForApi(cityName), country |-> countryCode],
       [name |-> normalizeCityNameForApi(cityName), country |-> ""] >>

\* what one pass of the loop body does: the client call and the mapping of its
\* response succeed, the client call throws, or the response cannot be mapped
AttemptOutcomes == {"ok", "throws", "unmappable"}

\* the loops of tryGetWeatherForCityInCountry that try every combination and
\* keep the last one that succeeded
RECURSIVE tryVariants_keepsTrying(_, _, _, _)
tryVariants_keepsTrying(cityName, variants, outcomes, k) ==
    IF k > Len(variants)
    THEN [lookups |-> <<>>, result |-> NoResult]
    ELSE LET call == [name |-> variants[k].name, country |-> variants[k].country,
                      ok |-> outcomes[k] = "ok"]
             rest == tryVariants_keepsTrying(cityName, variants, outcomes, k + 1)
         IN  [lookups |-> <<call>> \o rest.lookups,
              result |-> IF outcomes[k] = "ok" /\ rest.result.isNull
                         THEN [isNull |-> FALSE, city |-> variants[k].name, asked |-> cityName]
                         ELSE rest.result]

\* the two nested loops of tryGetWeatherForCityInCountry from combination k on:
\* a pass that succeeds returns, a pass that throws is caught and the next
\* combination is tried; null (NoResult) after the last one
RECURSIVE tryVariants(_, _, _, _)
tryVariants(cityName, variants, outcomes, k) ==
    IF k > Len(variants)
    THEN [lookups |-> <<>>, result |-> NoResult]
    ELSE LET call == [name |-> variants[k].name, country |-> variants[k].country,
                      ok |-> outcomes[k] = "ok"]
         IN  IF outcomes[k] = "ok"
             THEN [lookups |-> <<call>>,
                   result |-> [isNull |-> FALSE, city |-> variants[k].name, asked |-> cityName]]
             ELSE LET rest == tryVariants(cityName, variants, outcomes, k + 1)
                  IN  [lookups |-> <<call>> \o rest.lookups, result |-> rest.result]

\* tryGetWeatherForCityInCountry: the first `fails` provider lookups of this city
\* fail (the call throws or its response cannot be mapped), the next one succeeds.
\* Yields the lookups issued and the result (NoResult for null).
tryGetWeatherForCityInCountry(cityName, countryCode, fails) ==
    LET variants == Variants(cityName, countryCode)
    IN  tryVariants(cityName, variants,
                    [k \in 1..Len(variants) |-> IF k > fails THEN "ok" ELSE "throws"], 1)

\* getWeatherForCities that gives up at the first city without a result
RECURSIVE getWeatherForCities_abortOnFailure(_, _, _, _)
getWeatherForCities_abortOnFailure(cities, countryCode, fails, i) ==
    IF i > Len(cities)
    THEN [lookups |-> <<>>, results |-> <<>>]
    ELSE LET one == tryGetWeatherForCityInCountry(cities[i], countryCode, fails[i])
             rest == getWeatherForCities_abortOnFailure(cities, countryCode, fails, i + 1)
         IN  IF one.result.isNull
             THEN [lookups |-> one.lookups, results |-> <<>>]
             ELSE [lookups |-> one.lookups \o rest.lookups,
                   results |-> <<one.result>> \o rest.results]

\* getWeatherForCities: cities are queried one after another
RECURSIVE getWeatherForCities(_, _, _, _)
getWeatherForCities(cities, countryCode, fails, i) ==
    IF i > Len(cities)
    THEN [lookups |-> <<>>, results |-> <<>>]
    ELSE LET one == tryGetWeatherForCityInCountry(cities[i], countryCode, fails[i])
             rest == getWeatherForCities(cities, countryCode, fails, i + 1)
         IN  [lookups |-> one.lookups \o rest.lookups,
              results |-> IF one.result.isNull THEN rest.results
                          ELSE <<one.result>> \o rest.results]

CountryCall(countryCode, limit, persisted, source, cities, queried, fails, lookups, dynamic, dynamicCalls, threw, results) ==
    [op |-> "getByCountry", countryCode |-> countryCode, limit |-> limit,
     persisted |-> persisted, source |-> source, cities |-> cities, queried |-> queried,
     fails |-> fails, lookups |-> lookups, dynamic |-> dynamic,
     dynamicCalls |-> dynamicCalls, threw |-> threw, results |-> results]

NoCountryLog == [op |-> "none"]

\* the try block of the dynamic search: apiClient.getCitiesByCountry, then the
\* mapping of every response; an empty list falls through to the final return
dynamicSearch(d) ==
    IF d.kind = "throws"
    THEN Rejected(PlainError(<<"getCitiesByCountry", "failed">>))
    ELSE IF d.n > 0 /\ d.bad > 0
    THEN Rejected(PlainError(<<"Formato", "de", "respuesta", "de", "API", "invalido">>))
    ELSE [ok |-> TRUE, err |-> NoError,
          data |-> [k \in 1..d.n |-> [isNull |-> FALSE, city |-> "dynamic",
                                      asked |-> "dynamic"]]]

\* resolveCities that consults the static table only when no repository is wired
resolveCities_skipStatic(repo, countryCode, limit, p) ==
    LET upperCountry == ToUpperCase(countryCode)
        maxCities == IF limit > 0 THEN limit ELSE DefaultMaxCities
        asked == IF repo = "wired" THEN p ELSE NotAsked
        fromRepo == IF asked.kind = "list" THEN asked.cities ELSE <<>>
        cities == IF repo # "wired" THEN getCitiesForCountry(upperCountry) ELSE fromRepo
    IN  [upperCountry |-> upperCountry,
         asked |-> asked,
         source |-> IF Len(fromRepo) > 0 THEN "persisted"
                    ELSE IF Len(cities) > 0 THEN "static" ELSE "dynamic",
         cities |-> cities,
         citiesToQuery |-> SubSeq(cities, 1, Min(maxCities, Len(cities)))]

\* the head of getByCountry: the source list L and the cities it will query.
\* limit = 0 stands for an absent (or zero) limit; p is what the persisted
\* repository does when it is asked.
resolveCities(repo, countryCode, limit, p) ==
    LET upperCountry == ToUpperCase(countryCode)
        maxCities == IF limit > 0 THEN limit ELSE DefaultMaxCities
        asked == IF repo = "wired" THEN p ELSE NotAsked
        fromRepo == IF asked.kind = "list" THEN asked.cities ELSE <<>>
        cities == IF Len(fromRepo) = 0 THEN getCitiesForCountry(upperCountry) ELSE fromRepo
    IN  [upperCountry |-> upperCountry,
         asked |-> asked,
         source |-> IF Len(fromRepo) > 0 THEN "persisted"
                    ELSE IF Len(cities) > 0 THEN "static" ELSE "dynamic",
         cities |-> cities,
         citiesToQuery |-> SubSeq(cities, 1, Min(maxCities, Len(cities)))]

\* getByCountry without the try/catch around the dynamic search
getByCountry_rethrow(repo, countryCode, limit, p, fails, d) ==
    LET rc == resolveCities(repo, countryCode, limit, p)
    IN  IF Len(rc.cities) > 0
        THEN LET w == getWeatherForCities(rc.citiesToQuery, rc.upperCountry, fails, 1)
             IN  CountryCall(countryCode, limit, rc.asked, rc.source, rc.cities,
                             rc.citiesToQuery, fails, w.lookups, NoDynamic, 0, FALSE,
                             w.results)
        ELSE LET dyn == dynamicSearch(d)
             IN  CountryCall(countryCode, limit, rc.asked, rc.source, rc.cities, <<>>, <<>>,
                             <<>>, d, 1, ~dyn.ok,
                             IF dyn.ok THEN dyn.data ELSE <<>>)

\* getByCountry(countryCode, limit).  fails: per queried city, the number of
\* failing lookups; d: what the dynamic search does when it is asked.
getByCountry(repo, countryCode, limit, p, fails, d) ==
    LET rc == resolveCities(repo, countryCode, limit, p)
    IN  IF Len(rc.cities) > 0
        THEN LET w == getWeatherForCities(rc.citiesToQuery, rc.upperCountry, fails, 1)
             IN  CountryCall(countryCode, limit, rc.asked, rc.source, rc.cities,
                             rc.citiesToQuery, fails, w.lookups, NoDynamic, 0, FALSE,
                             w.results)
        ELSE LET dyn == dynamicSearch(d)
             IN  \* the try/catch around the dynamic search swallows every failure
                 CountryCall(countryCode, limit, rc.asked, rc.source, rc.cities, <<>>, <<>>,
                             <<>>, d, 1, FALSE,
                             IF dyn.ok THEN dyn.data ELSE <<>>)

CountryCodes == {"es", "SG", "XX"}
MaxFails == 4

GetByCountry ==
    /\ countryPc = "idle"
    /\ \E countryCode \in CountryCodes, limit \in 0..MaxLimit,
          p \in (IF countryCitiesRepo = "wired" THEN PersistedOutcomes ELSE {NotAsked}) :
         LET rc == resolveCities(countryCitiesRepo, countryCode, limit, p)
         IN  \E fails \in [1..Len(rc.citiesToQuery) -> 0..MaxFails],
                d \in (IF Len(rc.cities) = 0 THEN DynamicOutcomes ELSE {NoDynamic}) :
                countryLog' = getByCountry(countryCitiesRepo, countryCode, limit, p, fails, d)
    /\ countryPc' = "returned"
    /\ UNCHANGED <<aux, cfg, clientLog, clientPc, countryCitiesRepo, now, cache, hist>>

CountryReturn ==
    /\ countryPc = "returned"
    /\ countryPc' = "idle"
    /\ countryLog' = NoCountryLog
    /\ UNCHANGED <<aux, cfg, clientLog, clientPc, countryCitiesRepo, now, cache, hist>>

----------------------------------------------------------------------------
(* Specifications *)

\* the concurrent executions of AddFavoriteUseCase.execute
FavoriteRuns == 1..MaxRuns

\* an execution that has not started
IdleRun == [pc |-> "idle", city |-> "", country |-> "", existed |-> FALSE, code |-> ""]

InitLogs ==
    /\ clientLog = NoClientLog
    /\ clientPc = "idle"
    /\ countryLog = NoCountryLog
    /\ countryPc = "idle"
    /\ now = 0
    /\ cache = <<>>
    /\ hist = <<>>
    /\ providerLog = [op |-> "none"]
    /\ faultLog = [op |-> "none"]
    /\ useCaseLog = [op |-> "none"]
    /\ favoriteDocs = {}
    /\ favoriteRuns = [p \in FavoriteRuns |-> IdleRun]
    /\ weatherLog = [op |-> "none"]
    /\ cacheLog = [op |-> "none"]

\* the repository over the keyed client with the default configuration
Init ==
    /\ cfg = DefaultConfig
    /\ countryCitiesRepo = "null"
    /\ InitLogs

Next == GetByCity \/ Tick \/ CacheDelete \/ CacheClear

Spec == Init /\ [][Next]_vars

\* the keyed client under every retry configuration
InitClient ==
    /\ cfg \in Configs
    /\ countryCitiesRepo = "null"
    /\ InitLogs

NextClient == ClientCallByCityName \/ ClientCallByCoordinates \/ ClientReturn

SpecClient == InitClient /\ [][NextClient]_vars

\* country lookups, with and without a persisted city repository
InitCountry ==
    /\ cfg = DefaultConfig
    /\ countryCitiesRepo \in {"null", "wired"}
    /\ InitLogs

NextCountry == GetByCountry \/ CountryReturn

SpecCountry == InitCountry /\ [][NextCountry]_vars

----------------------------------------------------------------------------
(* Properties *)

Last == hist[Len(hist)]
TtlMs == defaultTtlSeconds * 1000

\* the last two operations were getByCity calls with identical parameters, and the
\* first of them fetched from the provider and stored its result
TwoIdenticalCalls ==
    /\ Len(hist) = 2
    /\ hist[1].op = "getByCity" /\ hist[2].op = "getByCity"
    /\ hist[1].params = hist[2].params
    /\ ~hist[1].hit /\ hist[1].ok

\* C1: of two sequential getByCity calls with identical parameters, the second
\* issued no later than TTL after the first stored its result, exactly one calls
\* the provider: the second is a cache hit and returns the first call's result.
C1_CacheIdempotence ==
    (TwoIdenticalCalls /\ hist[2].at <= hist[1].result.requestedAt + TtlMs)
        => /\ hist[2].hit
           /\ hist[1].calls + hist[2].calls = 1
           /\ hist[2].result = hist[1].result

C1_Witness ==
    /\ TwoIdenticalCalls
    /\ hist[2].at = hist[1].result.requestedAt + TtlMs
    /\ hist[2].hit
    /\ hist[2].calls = 0

\* C2: a getByCity call that finds the entry of an earlier identical call past its
\* expiry is a cache miss and calls the provider again.
C2_CacheExpiry ==
    (/\ Len(hist) >= 1
     /\ Last.op = "getByCity"
     /\ \/ Last.stale
        \/ TwoIdenticalCalls /\ hist[2].at > hist[1].result.requestedAt + TtlMs)
        => /\ ~Last.hit
           /\ Last.calls = 1

C2_Witness ==
    /\ TwoIdenticalCalls
    /\ hist[2].at > hist[1].result.requestedAt + TtlMs
    /\ hist[2].stale
    /\ ~hist[2].hit
    /\ hist[1].calls + hist[2].calls = 2

----------------------------------------------------------------------------

Range(f) == { f[i] : i \in DOMAIN f }

CountryDone == countryLog.op = "getByCountry"

\* the persisted repository is missing, failing, or has no cities for the country
PersistedAbsent(asked) ==
    \/ asked.kind \in {"notAsked", "throws", "undefined"}
    \/ asked.kind = "list" /\ Len(asked.cities) = 0

StaticRow(countryCode) == CITIES_BY_COUNTRY(ToUpperCase(countryCode))

C4_FallbackExhaustion ==
    (/\ CountryDone
     /\ PersistedAbsent(countryLog.persisted)
     /\ Len(StaticRow(countryLog.countryCode)) = 0
     /\ \/ countryLog.dynamic.kind = "throws"
        \/ countryLog.dynamic.kind = "list" /\ countryLog.dynamic.n = 0)
        => /\ countryLog.results = <<>>
           /\ ~countryLog.threw

C4_Witness ==
    /\ CountryDone
    /\ countryLog.persisted.kind = "undefined"
    /\ Len(StaticRow(countryLog.countryCode)) = 0
    /\ countryLog.dynamic.kind = "throws"
    /\ countryLog.dynamicCalls = 1
    /\ countryLog.results = <<>>
    /\ ~countryLog.threw

\* the cities of q, in order, that had a successful lookup
RECURSIVE Successful(_, _, _)
Successful(q, fails, i) ==
    IF i > Len(q) THEN <<>>
    ELSE (IF fails[i] < MaxFails THEN <<q[i]>> ELSE <<>>) \o Successful(q, fails, i + 1)

\* C5: over a non-empty source list L and a limit >= 1, getByCountry queries the
\* first min(limit, |L|) cities of L, each of them whatever happened to the ones
\* before, and returns the successful ones in L's order without failing; with no
\* failed lookup the result has min(limit, |L|) entries.
C5_PerCityIsolation ==
    (/\ CountryDone
     /\ countryLog.limit >= 1
     /\ Len(countryLog.cities) > 0)
        => LET L == countryLog.cities
               n == Min(countryLog.limit, Len(L))
           IN  /\ countryLog.queried = SubSeq(L, 1, n)
               /\ ~countryLog.threw
               /\ [k \in 1..Len(countryLog.results) |-> countryLog.results[k].asked]
                     = Successful(countryLog.queried, countryLog.fails, 1)
               /\ \A i \in 1..n :
                     \E k \in 1..Len(countryLog.lookups) :
                        countryLog.lookups[k].name = countryLog.queried[i]
               /\ (\A i \in 1..n : countryLog.fails[i] = 0)
                     => Len(countryLog.results) = n

\* limit 3 over the five static cities of ES: the second city fails in all its
\* variants, the third is still queried and returned
C5_Witness ==
    /\ CountryDone
    /\ countryLog.limit = 3
    /\ countryLog.source = "static"
    /\ countryLog.fails = <<0, MaxFails, 0>>
    /\ Len(countryLog.results) = 2
    /\ countryLog.results[1].asked = "Madrid"
    /\ countryLog.results[2].asked = "Valencia"

----------------------------------------------------------------------------

\* a keyed-client call that reached the weather request has returned
WeatherCallDone == clientPc = "returned" /\ clientLog.op \in {"byCityName", "byCoordinates"}

\* the failures section 4.1 classifies as retryable: network errors (no
\* response) and 5xx / 408 / 429 responses
RetryableFailure(o) ==
    \/ o.kind \in {"timeout", "network", "norequest"}
    \/ o.kind = "http" /\ (o.status >= 500 \/ o.status = 408 \/ o.status = 429)

RateLimitFailure(o) == o.kind = "http" /\ o.status = 429

\* every other 4xx response
TerminalFailure(o) ==
    o.kind = "http" /\ o.status >= 400 /\ o.status < 500 /\ ~RetryableFailure(o)

\* the error that the k-th attempt of the last call handed to the catch block
LoopError(k) == attemptOnce(cfg, clientLog.attempts[k]).err

\* a failure that is retryable where the retry loop sees it: a request error
\* without response or with a 5xx / 408 / 429 status, or a timeout error
RetryableInLoop(e) ==
    \/ e.isAxios /\ (~e.hasResponse \/ e.status >= 500 \/ e.status \in {408, 429})
    \/ ~e.isAxios /\ e.cls # "none" /\ Includes(ToLowerCase(e.msg), <<"timeout">>)

RateLimitInLoop(e) == e.isAxios /\ e.hasResponse /\ e.status = 429

\* the call issued weather requests (its geocoding step, if any, succeeded)
ReachedWeather ==
    clientLog.op = "byCoordinates"
    \/ (clientLog.geo.kind = "ok" /\ clientLog.geo.body.results > 0)

C7_RetryClassification ==
    WeatherCallDone
        => \A k \in 1..Len(clientLog.attempts) :
              /\ (RetryableFailure(clientLog.attempts[k]) /\ k < cfg.maxRetries)
                    => Len(clientLog.attempts) > k
              /\ TerminalFailure(clientLog.attempts[k])
                    => /\ Len(clientLog.attempts) = k
                       /\ ~clientLog.ok
                       /\ clientLog.err.code # "MAX_RETRIES_EXCEEDED"

\* C8: after a 429 response with retry-after: 2 the client performs a next
\* attempt and waits at least 2000 ms before it.
C8_RetryAfterHonoured ==
    WeatherCallDone
        => \A k \in 1..Len(clientLog.attempts) :
              (/\ RateLimitFailure(clientLog.attempts[k])
               /\ clientLog.attempts[k].retryAfter = 2
               /\ k < cfg.maxRetries)
                 => /\ Len(clientLog.attempts) > k
                    /\ clientLog.delays[k] >= 2000

\* C9: the geocoding request is wrapped in the retry loop too: a transient
\* failure of it is retried up to maxRetries attempts before the lookup fails.
C9_GeocodingRetried ==
    (/\ WeatherCallDone
     /\ clientLog.op = "byCityName"
     /\ RetryableFailure(clientLog.geo)
     /\ cfg.maxRetries >= 2)
        => clientLog.geoRequests >= 2

\* C10: when the upstream answers the weather request of a getByCity call with
\* HTTP 401, getByCity raises a ConfigurationError.
C10_AuthFailureIsConfigurationError ==
    (/\ Len(hist) >= 1
     /\ Last.op = "getByCity"
     /\ ~Last.hit
     /\ Last.last.req = "weather"
     /\ Last.last.wire.kind = "http"
     /\ Last.last.wire.status = 401)
        => /\ ~Last.ok
           /\ Last.err.cls = "ConfigurationError"

\* the last getByCity call missed the cache and went to the provider
CityMiss == Len(hist) >= 1 /\ Last.op = "getByCity" /\ ~Last.hit

\* C11: when the geocoder answers the city-name lookup with zero results,
\* getByCity fails and reports the failure to its caller as NotFoundError.
C11_GeocoderEmptyIsNotFound ==
    (/\ CityMiss
     /\ Last.last.req = "geo"
     /\ Last.last.wire.kind = "ok"
     /\ Last.last.wire.body.results = 0)
        => /\ ~Last.ok
           /\ Last.err.cls = "NotFoundError"

----------------------------------------------------------------------------
(* Both provider clients behind the repository *)

\* OpenMeteoClient.resolveCoordinates: one request, no retry, no interceptor
OpenMeteoClient_resolveCoordinates(cityName, countryCode, g) ==
    IF g.kind # "ok" THEN Rejected(RawAxiosError(DefaultConfig, g))
    ELSE IF g.body.results = 0
    THEN Rejected(PlainError(<<"No", "se", "encontraron", "coordenadas", "para", cityName>>
                             \o (IF countryCode # "" THEN <<",", countryCode>> ELSE <<>>)))
    ELSE Resolved(g.body)

\* OpenMeteoClient.getCurrentWeatherByCityName: the `current` block of the
\* forecast response is copied into a payload of the keyed provider's shape;
\* nothing is parsed or validated.  w.body carries the readings
\* (temperature_2m, pressure_msl, relative_humidity_2m, wind_speed_10m), all present.
OpenMeteoClient_getCurrentWeatherByCityName(cityName, countryCode, g, w) ==
    LET coords == OpenMeteoClient_resolveCoordinates(cityName, countryCode, g)
    IN  IF ~coords.ok THEN coords
        ELSE IF w.kind # "ok" THEN Rejected(RawAxiosError(DefaultConfig, w))
        ELSE Resolved([NoBody EXCEPT !.shape = "weather", !.cod = 200,
                                     !.lat = coords.data.lat, !.lon = coords.data.lon,
                                     !.conds = <<Cond("Clear", "Clear sky (Open-Meteo)")>>,
                                     !.temp = w.body.temp,
                                     !.pressure = w.body.pressure,
                                     !.humidity = w.body.humidity,
                                     !.visibility = 10000,
                                     !.windSpeed = w.body.windSpeed,
                                     !.deg = w.body.deg,
                                     !.country = coords.data.country,
                                     !.name = coords.data.name])

\* the readings an upstream can deliver, inside and outside the schema's ranges
Readings ==
    [temp : {-300, 293}, pressure : {-5, 0, 1013}, humidity : {-1, 0, 100, 150},
     windSpeed : {-1, 0, 3}, visibility : {10000, 20000}, lat : {40, 95},
     country : {"ES", "ESP"}]

\* the payload of the keyed provider's shape that carries reading rd
ReadingBody(rd, name) ==
    [WeatherBody(Place(name, rd.country)) EXCEPT
        !.temp = rd.temp, !.pressure = rd.pressure, !.humidity = rd.humidity,
        !.windSpeed = rd.windSpeed, !.visibility = rd.visibility, !.lat = rd.lat]

\* one getByCity through a provider: what the provider delivered in the
\* schema's shape (wire), whether the domain mapping was entered, the outcome
ProviderLookup(provider, wire, r, call) ==
    [op |-> "lookup", provider |-> provider, wire |-> wire, mapped |-> r.ok,
     ok |-> call.ok, err |-> call.err, result |-> call.result]

\* getByCity on an empty cache over the keyed client, upstream answering with rd
KeyedLookup ==
    /\ providerLog.op = "none"
    /\ \E rd \in Readings, params \in QueryParams :
         \E body \in {ReadingBody(rd, params.name)},
            g \in {Wire("ok", 200, 0, GeoBody(1, Place(params.name, params.country)))} :
            \E x \in {getCurrentWeatherByCityName(DefaultConfig, params.name,
                                                  params.country, g,
                                                  <<Wire("ok", 200, 0, body)>>)} :
               \E r \in {ProviderResult(x)} :
                  providerLog' = ProviderLookup("openweathermap", body, r,
                                                getByCity(<<>>, params, 0, 0, r).call)
    /\ UNCHANGED <<faultLog, useCaseLog, others, core>>

\* getByCity on an empty cache over the keyless client, upstream answering with rd
OpenMeteoLookup ==
    /\ providerLog.op = "none"
    /\ \E rd \in Readings, params \in QueryParams :
         \E geo \in {[GeoBody(1, Place(params.name, rd.country)) EXCEPT !.lat = rd.lat]} :
            \E x \in {OpenMeteoClient_getCurrentWeatherByCityName(
                          params.name, params.country, Wire("ok", 200, 0, geo),
                          Wire("ok", 200, 0, ReadingBody(rd, params.name)))} :
               \E r \in {[ok |-> x.ok, data |-> x.data, err |-> x.err, last |-> NoWire]} :
                  providerLog' = ProviderLookup("open-meteo", x.data, r,
                                                getByCity(<<>>, params, 0, 0, r).call)
    /\ UNCHANGED <<faultLog, useCaseLog, others, core>>

ProviderReturn ==
    /\ providerLog.op # "none"
    /\ providerLog' = [op |-> "none"]
    /\ UNCHANGED <<faultLog, useCaseLog, others, core>>

NextProviders == KeyedLookup \/ OpenMeteoLookup \/ ProviderReturn

SpecProviders == Init /\ [][NextProviders]_vars

\* C12: for both provider clients a response that violates the structural
\* schema never enters the domain mapping, and the call fails with an
\* invalid-API-response error.
C12_SchemaBeforeMapping ==
    (providerLog.op = "lookup" /\ ~OpenWeatherResponseSchema(providerLog.wire))
        => /\ ~providerLog.mapped
           /\ ~providerLog.ok
           /\ Includes(providerLog.err.msg, <<"Respuesta", "de", "API", "invalida">>)

----------------------------------------------------------------------------
(* getByCity over a cache service whose get or set may throw *)

\* the arguments getByCity passes to apiClient.getCurrentWeatherByCityName
apiClientArguments(params) ==
    <<params.name, params.country,
      IF params.units # "" THEN UNIT_TO_API_PARAM(params.units) ELSE "undefined">>

\* the error a failing cache service throws
CacheFailure == PlainError(<<"cache", "unavailable">>)

\* getByCity propagating a failure of cacheService.set to its caller
getByCityOverCache_propagateWriteFailure(cch, params, t, t2, r, readFails, writeFails) ==
    LET plain == getByCity(IF readFails THEN <<>> ELSE cch, params, t, t2, r)
    IN  IF plain.call.ok /\ ~plain.call.hit /\ writeFails
        THEN [call |-> [plain.call EXCEPT !.ok = FALSE, !.result = NoResult,
                                          !.err = handleAPIError(CacheFailure,
                                                                 CityToString(params))],
              cache |-> cch]
        ELSE [call |-> plain.call, cache |-> IF readFails THEN cch ELSE plain.cache]

\* getByCity where cacheService.get throws (readFails) or cacheService.set
\* throws (writeFails): both are caught and logged; a failed read continues as
\* a miss, a failed write leaves the cache as it was
getByCityOverCache(cch, params, t, t2, r, readFails, writeFails) ==
    LET cacheKey == CacheKey(params)
        cached == IF readFails THEN [value |-> Null, cache |-> cch]
                               ELSE cacheGet(cch, cacheKey, t)
    IN  IF ~cached.value.isNull
        THEN [call |-> CityCall(params, t, TRUE, FALSE, 0, TRUE, cached.value, NoError, NoWire),
              cache |-> cached.cache]
        ELSE LET weather == IF r.ok THEN mapAPIToWeather(r.data) ELSE Rejected(r.err)
                 city == IF weather.ok THEN mapAPIToCity(r.data) ELSE Rejected(weather.err)
             IN  IF city.ok
                 THEN LET result == WeatherResult(weather.data, city.data, t2)
                      IN  [call |-> CityCall(params, t, FALSE, FALSE, 1, TRUE, result,
                                             NoError, r.last),
                           cache |-> IF writeFails THEN cached.cache
                                     ELSE cacheSet(cached.cache, cacheKey, result, 0, t2)]
                 ELSE [call |-> CityCall(params, t, FALSE, FALSE, 1, FALSE, NoResult,
                                         handleAPIError(city.err, CityToString(params)),
                                         r.last),
                       cache |-> cached.cache]

\* a cache that is empty, or holds a live entry for the queried key
CachesFor(params) ==
    { <<>>,
      <<Entry(CacheKey(params),
              WeatherResult([temperature |-> 280, pressure |-> 1000, humidity |-> 40,
                             visibility |-> 10000, windSpeed |-> 1, windDirection |-> 90,
                             condition |-> "Rain", description |-> "light rain"],
                            [name |-> params.name, country |-> params.country], 0),
              TtlMs, 0)>> }

FaultyGetByCity ==
    /\ faultLog.op = "none"
    /\ \E params \in UnitQueryParams, readFails \in BOOLEAN, writeFails \in BOOLEAN :
         \E cch \in CachesFor(params), r \in ProviderResults[DefaultConfig, params] :
            LET out == getByCityOverCache(cch, params, 1000, 1000, r, readFails, writeFails)
            IN  faultLog' = [op |-> "getByCity", readFails |-> readFails,
                             writeFails |-> writeFails, before |-> cch, provider |-> r,
                             params |-> params,
                             args |-> IF out.call.calls = 1
                                      THEN apiClientArguments(params) ELSE <<>>,
                             call |-> out.call, cache |-> out.cache]
    /\ UNCHANGED <<providerLog, useCaseLog, others, core>>

FaultyReturn ==
    /\ faultLog.op # "none"
    /\ faultLog' = [op |-> "none"]
    /\ UNCHANGED <<providerLog, useCaseLog, others, core>>

NextCacheFaults == FaultyGetByCity \/ FaultyReturn

SpecCacheFaults == Init /\ [][NextCacheFaults]_vars

\* the provider's answer maps to domain entities
ProviderDelivers(r) ==
    r.ok /\ mapAPIToWeather(r.data).ok /\ mapAPIToCity(r.data).ok

\* the cache service threw during the call: on the read, or on the write that
\* follows a successful provider call
CacheThrew ==
    /\ faultLog.op = "getByCity"
    /\ \/ faultLog.readFails
       \/ faultLog.writeFails /\ ~faultLog.call.hit /\ ProviderDelivers(faultLog.provider)

\* C13: a cacheService.get or cacheService.set that throws never fails
\* getByCity: when the provider delivers, the call returns the provider's
\* result, and no error of the call is the cache's.
C13_CacheFailuresSwallowed ==
    CacheThrew
        => /\ ProviderDelivers(faultLog.provider)
              => /\ faultLog.call.ok
                 /\ faultLog.call.calls = 1
                 /\ faultLog.call.result.weather = mapAPIToWeather(faultLog.provider.data).data
                 /\ faultLog.call.result.city = mapAPIToCity(faultLog.provider.data).data
           /\ ~faultLog.call.ok
              => /\ ~ProviderDelivers(faultLog.provider)
                 /\ ~Includes(faultLog.call.err.msg, <<"cache", "unavailable">>)

\* the read threw on a cache holding a live entry, the write threw as well, and
\* the caller still received the provider's result
C13_Witness ==
    /\ faultLog.op = "getByCity"
    /\ faultLog.readFails
    /\ faultLog.writeFails
    /\ faultLog.before # <<>>
    /\ faultLog.call.ok
    /\ ~faultLog.call.hit
    /\ faultLog.call.result.weather.temperature = 293
    /\ faultLog.cache = faultLog.before

----------------------------------------------------------------------------
(* GetWeatherByCityUseCase.  Request strings are sequences of characters. *)

Letters == {"M", "a", "E", "S", "e", "s", "P"}
UpperLetters == {"M", "E", "S", "P"}

\* String.prototype.trim
RECURSIVE Trim(_)
Trim(str) ==
    IF str = <<>> THEN <<>>
    ELSE IF Head(str) = " " THEN Trim(Tail(str))
    ELSE IF str[Len(str)] = " " THEN Trim(SubSeq(str, 1, Len(str) - 1))
    ELSE str

\* replace(/\s+/g, ' ')
RECURSIVE CollapseSpaces(_)
CollapseSpaces(str) ==
    IF Len(str) < 2 THEN str
    ELSE IF str[1] = " " /\ str[2] = " " THEN CollapseSpaces(Tail(str))
    ELSE <<str[1]>> \o CollapseSpaces(Tail(str))

\* /^[a-zA-Z\s\-']+$/
NameCharacters(str) ==
    str # <<>> /\ \A i \in 1..Len(str) : str[i] \in Letters \cup {" ", "-", "'"}

\* SimpleCityValidator.validateCountryCode
validateCountryCode(code) ==
    Len(code) = 2 /\ \A i \in 1..Len(code) : code[i] \in UpperLetters

\* SimpleCityValidator.normalizeCityName
normalizeCityName(name) == CollapseSpaces(Trim(name))

ValidationError(message) ==
    DomainError("ValidationError", message, "VALIDATION_ERROR", TRUE, 400)

ValidationErrorForField(field, message) ==
    ValidationError(<<"Campo", "'", field, "'", ":">> \o message)

\* City constructor: validateName and validateCountry
CityConstructor(name, country) ==
    IF Trim(name) = <<>>
    THEN Rejected(PlainError(<<"El", "nombre", "de", "la", "ciudad", "no", "puede",
                               "estar", "vacio">>))
    ELSE IF Len(name) < 2
    THEN Rejected(PlainError(<<"El", "nombre", "de", "la", "ciudad", "debe", "tener",
                               "al", "menos", "2", "caracteres">>))
    ELSE IF ~NameCharacters(name)
    THEN Rejected(PlainError(<<"El", "nombre", "de", "la", "ciudad", "contiene",
                               "caracteres", "invalidos">>))
    ELSE IF Trim(country) = <<>>
    THEN Rejected(PlainError(<<"El", "pais", "no", "puede", "estar", "vacio">>))
    ELSE IF Len(country) # 2 /\ Len(country) # 3 /\ ~NameCharacters(country)
    THEN Rejected(PlainError(<<"El", "pais", "contiene", "caracteres", "invalidos">>))
    ELSE [ok |-> TRUE, data |-> [name |-> name, country |-> country], err |-> NoError]

\* Result<T, E>: ok(value) and err(error)
Ok(value) == [success |-> TRUE, value |-> value, error |-> NoError]
Err(error) == [success |-> FALSE, value |-> "none", error |-> error]

\* validateRequest without the check of the units
validateRequest_noUnitsCheck(request) ==
    IF request.cityName = <<>> \/ Len(Trim(request.cityName)) = 0
    THEN Err(ValidationErrorForField("cityName", <<"El", "nombre", "de", "la", "ciudad",
                                                   "es", "requerido">>))
    ELSE IF Len(request.cityName) < 2
    THEN Err(ValidationErrorForField("cityName", <<"El", "nombre", "debe", "tener", "al",
                                                   "menos", "2", "caracteres">>))
    ELSE IF request.countryCode # <<>> /\ ~validateCountryCode(request.countryCode)
    THEN Err(ValidationErrorForField("countryCode", <<"Codigo", "de", "pais", "invalido">>))
    ELSE Ok("true")

\* validateRequest.  An absent cityName, countryCode or units is <<>> / "".
validateRequest(request) ==
    IF request.cityName = <<>> \/ Len(Trim(request.cityName)) = 0
    THEN Err(ValidationErrorForField("cityName", <<"El", "nombre", "de", "la", "ciudad",
                                                   "es", "requerido">>))
    ELSE IF Len(request.cityName) < 2
    THEN Err(ValidationErrorForField("cityName", <<"El", "nombre", "debe", "tener", "al",
                                                   "menos", "2", "caracteres">>))
    ELSE IF request.countryCode # <<>> /\ ~validateCountryCode(request.countryCode)
    THEN Err(ValidationErrorForField("countryCode", <<"Codigo", "de", "pais", "invalido">>))
    ELSE IF request.units # "" /\ request.units \notin {"celsius", "fahrenheit", "kelvin"}
    THEN Err(ValidationErrorForField("units", <<"Unidad", "de", "temperatura", "no",
                                                "soportada">>))
    ELSE Ok("true")

transformToDomain(request) ==
    [cityName |-> normalizeCityName(request.cityName),
     countryCode |-> request.countryCode,
     units |-> IF request.units = "fahrenheit" THEN "fahrenheit"
               ELSE IF request.units = "kelvin" THEN "kelvin" ELSE "celsius"]

\* what weatherRepository.getByCity can do: return a result, return something
\* that is no WeatherResult, or throw an error or some other value
RepositoryBehaviours ==
    { [kind |-> "returns", thrown |-> NoError], [kind |-> "returnsMalformed", thrown |-> NoError] }
    \cup { [kind |-> "throws", thrown |-> e] :
             e \in { NotFoundError("Ciudad", <<"Ma", ",", "ES">>),
                     ApiError(<<"Error", "al", "consultar", "el", "clima">>,
                              "OpenWeatherMap", 0, FALSE),
                     ApiErrorRateLimit("OpenWeatherMap", 0),
                     ValidationError(<<"Coordenadas", "invalidas">>),
                     ConfigurationError("OpenWeatherMap", "API_KEY"),
                     PlainError(<<"timeout", "of", "5000ms", "exceeded">>),
                     PlainError(<<"socket", "hang", "up">>) } }
    \cup { [kind |-> "throwsValue", thrown |-> NoError] }

handleRepositoryError(b) ==
    IF b.kind = "throws" /\ b.thrown.cls \in {"NotFoundError", "ApiError", "ValidationError"}
    THEN Err(b.thrown)
    ELSE IF b.kind = "throws" /\ Includes(b.thrown.msg, <<"timeout">>)
    THEN Err(ApiErrorTimeout("OpenWeatherMap", 5000))
    ELSE Err(ApiError(<<"Error", "al", "comunicarse", "con", "el", "servicio", "de", "clima">>,
                      "OpenWeatherMap", 0, FALSE))

\* outcome of a run: a Result handed back, or an exception leaving the function
Returned(result, repoCalls) == [threw |-> FALSE, result |-> result, repoCalls |-> repoCalls]
Thrown(repoCalls) == [threw |-> TRUE, result |-> Err(NoError), repoCalls |-> repoCalls]

\* the body of the outer try block of execute; b is what the repository does
\* if it is called
executeBody(request, b) ==
    LET validationResult == validateRequest(request)
    IN  IF ~validationResult.success THEN Returned(Err(validationResult.error), 0)
        ELSE LET domainInput == transformToDomain(request)
                 city == CityConstructor(domainInput.cityName,
                                         IF domainInput.countryCode # <<>>
                                         THEN domainInput.countryCode ELSE <<"E", "S">>)
             IN  IF ~city.ok THEN Returned(Err(ValidationError(city.err.msg)), 0)
                 ELSE IF b.kind \in {"throws", "throwsValue"}
                 THEN Returned(handleRepositoryError(b), 1)
                 ELSE IF b.kind = "returnsMalformed"
                 THEN Thrown(1)
                 ELSE Returned(Ok([city |-> city.data, units |-> domainInput.units]), 1)

\* execute without its outer try/catch
execute_noOuterCatch(request, b) == executeBody(request, b)

\* GetWeatherByCityUseCase.execute
execute(request, b) ==
    LET run == executeBody(request, b)
    IN  IF run.threw
        THEN Returned(Err(ApplicationError(<<"Error", "inesperado", "al", "procesar", "la",
                                             "solicitud">>, "UNEXPECTED_ERROR")),
                      run.repoCalls)
        ELSE run

CityNameInputs ==
    { <<>>, <<" ">>, <<" ", " ">>, <<"M">>, <<" ", "M">>, <<"M", "a">>,
      <<" ", "M", "a", " ">>, <<"M", "1">> }
CountryCodeInputs == { <<>>, <<"E", "S">>, <<"e", "s">>, <<"E", "S", "P">> }
UnitsInputs == {"", "celsius", "fahrenheit", "kelvin", "rankine"}

Requests == [cityName : CityNameInputs, countryCode : CountryCodeInputs, units : UnitsInputs]

Execute ==
    /\ useCaseLog.op = "none"
    /\ \E request \in Requests, b \in RepositoryBehaviours :
         LET run == execute(request, b)
         IN  useCaseLog' = [op |-> "execute", request |-> request,
                            repository |-> IF run.repoCalls > 0 THEN b
                                           ELSE [kind |-> "notCalled", thrown |-> NoError],
                            threw |-> run.threw, result |-> run.result,
                            repoCalls |-> run.repoCalls]
    /\ UNCHANGED <<providerLog, faultLog, others, core>>

ExecuteReturn ==
    /\ useCaseLog.op # "none"
    /\ useCaseLog' = [op |-> "none"]
    /\ UNCHANGED <<providerLog, faultLog, others, core>>

NextUseCase == Execute \/ ExecuteReturn

SpecUseCase == Init /\ [][NextUseCase]_vars

\* C14: execute never throws: whatever the repository does it hands back a
\* Result, and a NotFoundError thrown by the repository is that Result's error,
\* unchanged.
C14_ExecuteNeverThrows ==
    useCaseLog.op = "execute"
        => /\ ~useCaseLog.threw
           /\ useCaseLog.result.success \in BOOLEAN
           /\ (~useCaseLog.result.success => useCaseLog.result.error.cls # "none")
           /\ (useCaseLog.repository.kind = "throws"
               /\ useCaseLog.repository.thrown.cls = "NotFoundError")
                 => /\ ~useCaseLog.result.success
                    /\ useCaseLog.result.error = useCaseLog.repository.thrown

\* the repository handed back something that makes the formatting throw, and
\* execute still returned a Result
C14_Witness ==
    /\ useCaseLog.op = "execute"
    /\ useCaseLog.repository.kind = "returnsMalformed"
    /\ ~useCaseLog.threw
    /\ ~useCaseLog.result.success
    /\ useCaseLog.result.error.code = "UNEXPECTED_ERROR"

\* every character of the string is a space (also: the string is empty)
Blank(str) == \A i \in 1..Len(str) : str[i] = " "

\* C15: an empty or blank city name, a supplied country code the validator
\* rejects, or a supplied unit other than celsius, fahrenheit, kelvin gives a
\* ValidationError result, and weatherRepository.getByCity is not called.
C15_ValidationBeforeRepository ==
    (/\ useCaseLog.op = "execute"
     /\ \/ Blank(useCaseLog.request.cityName)
        \/ (useCaseLog.request.countryCode # <<>>
            /\ ~validateCountryCode(useCaseLog.request.countryCode))
        \/ (useCaseLog.request.units # ""
            /\ useCaseLog.request.units \notin TemperatureUnits))
        => /\ ~useCaseLog.threw
           /\ ~useCaseLog.result.success
           /\ useCaseLog.result.error.cls = "ValidationError"
           /\ useCaseLog.repoCalls = 0

\* a good name and country with the unit "rankine": rejected for the unit alone
C15_Witness ==
    /\ useCaseLog.op = "execute"
    /\ useCaseLog.request.cityName = <<"M", "a">>
    /\ useCaseLog.request.countryCode = <<"E", "S">>
    /\ useCaseLog.request.units = "rankine"
    /\ useCaseLog.result.error.cls = "ValidationError"
    /\ Includes(useCaseLog.result.error.msg, <<"units">>)
    /\ useCaseLog.repoCalls = 0

\* the units parameter the provider expects for a unit of the domain
ExpectedUnitsParam(units) ==
    IF units = "celsius" THEN "metric"
    ELSE IF units = "fahrenheit" THEN "imperial"
    ELSE IF units = "kelvin" THEN "standard"
    ELSE "undefined"

\* C16: on a cache miss getByCity calls getCurrentWeatherByCityName with
\* exactly (city.name, city.country, p), p being metric / imperial / standard
\* for celsius / fahrenheit / kelvin and undefined without a unit; the returned
\* temperature is the wire's main.temp; when the client call fails, getByCity fails.
C16_ClientCallAndTemperature ==
    (faultLog.op = "getByCity" /\ ~faultLog.call.hit)
        => /\ faultLog.call.calls = 1
           /\ faultLog.args = <<faultLog.params.name, faultLog.params.country,
                                ExpectedUnitsParam(faultLog.params.units)>>
           /\ faultLog.call.ok
                => faultLog.call.result.weather.temperature = faultLog.provider.data.temp
           /\ ~faultLog.provider.ok => ~faultLog.call.ok

\* a kelvin query that missed: 'standard' was sent and the wire's 293 came back
C16_Witness ==
    /\ faultLog.op = "getByCity"
    /\ ~faultLog.call.hit
    /\ ~faultLog.readFails
    /\ ~faultLog.writeFails
    /\ faultLog.params.units = "kelvin"
    /\ faultLog.args = <<"Madrid", "ES", "standard">>
    /\ faultLog.call.ok
    /\ faultLog.provider.data.temp = 293
    /\ faultLog.call.result.weather.temperature = 293

\* C17: when getByCountry returns an empty list, no data source yielded any
\* city: the list is never empty because cities were found and every per-city
\* lookup failed.
C17_EmptyMeansNoCities ==
    (CountryDone /\ ~countryLog.threw /\ countryLog.results = <<>>)
        => /\ Len(countryLog.cities) = 0
           /\ Len(countryLog.queried) = 0

----------------------------------------------------------------------------
(* Favorites: AddFavoriteUseCase over MongoFavoriteRepository *)

FavoriteCities == {"Madrid", "madrid"}
FavoriteCountries == {"ES", "es"}

\* city names compared as the 'i' flag of the regular expression compares them
LowerCity(city) == IF city = "Madrid" THEN "madrid" ELSE city

\* MongoFavoriteRepository.exists: countDocuments with a case-insensitive
\* match on city and country.toUpperCase()
exists(docs, city, country) ==
    \E d \in docs : LowerCity(d.city) = LowerCity(city) /\ d.country = ToUpperCase(country)

\* MongoFavoriteRepository.save: FavoriteModel.create under the unique index
\* { city: 1, country: 1 }, which compares both fields exactly; the
\* duplicate-key error 11000 is caught and ignored
save(docs, city, country) ==
    LET doc == [city |-> city, country |-> country]
    IN  IF doc \in docs THEN docs ELSE docs \cup {doc}

\* the stored favorites hold the pair, city compared ignoring case
Stored(docs, city, country) ==
    \E d \in docs : LowerCity(d.city) = LowerCity(city) /\ d.country = country

\* execute, first await: repository.exists; an existing favorite ends the run
AddFavoriteExists(p) ==
    /\ favoriteRuns[p].pc = "idle"
    /\ \E city \in FavoriteCities, country \in FavoriteCountries :
         favoriteRuns' =
            [favoriteRuns EXCEPT ![p] =
                IF exists(favoriteDocs, city, country)
                THEN [pc |-> "done", city |-> city, country |-> country,
                      existed |-> Stored(favoriteDocs, city, country),
                      code |-> "DUPLICATE_FAVORITE"]
                ELSE [pc |-> "saving", city |-> city, country |-> country,
                      existed |-> Stored(favoriteDocs, city, country), code |-> ""]]
    /\ UNCHANGED <<favoriteDocs, weatherLog, cacheLog, providerLog, faultLog, useCaseLog, core>>

\* execute, second await: new Favorite(...) and repository.save
AddFavoriteSave(p) ==
    /\ favoriteRuns[p].pc = "saving"
    /\ favoriteDocs' = save(favoriteDocs, favoriteRuns[p].city, favoriteRuns[p].country)
    /\ favoriteRuns' =
          [favoriteRuns EXCEPT ![p].pc = "done", ![p].code = "OK",
                               ![p].existed = Stored(favoriteDocs, favoriteRuns[p].city,
                                                     favoriteRuns[p].country)]
    /\ UNCHANGED <<weatherLog, cacheLog, providerLog, faultLog, useCaseLog, core>>

\* the caller takes the Result
AddFavoriteReturn(p) ==
    /\ favoriteRuns[p].pc = "done"
    /\ favoriteRuns' = [favoriteRuns EXCEPT ![p] = IdleRun]
    /\ UNCHANGED <<favoriteDocs, weatherLog, cacheLog, providerLog, faultLog, useCaseLog, core>>

NextFavorites ==
    \E p \in FavoriteRuns : AddFavoriteExists(p) \/ AddFavoriteSave(p) \/ AddFavoriteReturn(p)

SpecFavorites == Init /\ [][NextFavorites]_vars

\* C18: after any interleaving of AddFavorite executions no two stored
\* favorites have the same country and city names equal ignoring case, and an
\* add of a pair that was already stored ends with DUPLICATE_FAVORITE.
C18_FavoritesUnique ==
    /\ \A d, e \in favoriteDocs :
          (d.country = e.country /\ LowerCity(d.city) = LowerCity(e.city)) => d = e
    /\ \A p \in FavoriteRuns :
          (favoriteRuns[p].pc = "done" /\ favoriteRuns[p].existed)
             => favoriteRuns[p].code = "DUPLICATE_FAVORITE"

----------------------------------------------------------------------------
(* Weather construction *)

\* constructor arguments around the limits of the three validations
TemperatureInputs == {-300, -274, -273, -100, -1, 0, 293}
HumidityInputs == {-1, 0, 50, 100, 101}
PressureInputs == {-1, 0, 1, 1013}

NewWeather ==
    /\ weatherLog.op = "none"
    /\ \E temperature \in TemperatureInputs, humidity \in HumidityInputs,
          pressure \in PressureInputs :
         LET w == Weather(temperature, pressure, humidity, 10000, 0, 0, "Clear", "clear sky")
         IN  weatherLog' = [op |-> "new", temperature |-> temperature,
                            humidity |-> humidity, pressure |-> pressure,
                            ok |-> w.ok, weather |-> w.data]
    /\ UNCHANGED <<favoriteDocs, favoriteRuns, cacheLog, providerLog, faultLog, useCaseLog, core>>

WeatherReturn ==
    /\ weatherLog.op = "new"
    /\ weatherLog' = [op |-> "none"]
    /\ UNCHANGED <<favoriteDocs, favoriteRuns, cacheLog, providerLog, faultLog, useCaseLog, core>>

NextWeather == NewWeather \/ WeatherReturn

SpecWeather == Init /\ [][NextWeather]_vars

\* C19: every constructed Weather has its Kelvin temperature at or above
\* absolute zero (0 K, the equivalent of -273.15 degrees C), humidity within
\* 0..100 and pressure above 0; a construction violating one of these fails.
C19_WeatherInvariant ==
    weatherLog.op = "new"
        => (weatherLog.ok <=> /\ weatherLog.temperature >= 0
                              /\ weatherLog.humidity >= 0
                              /\ weatherLog.humidity <= 100
                              /\ weatherLog.pressure > 0)

----------------------------------------------------------------------------
(* MemoryCacheAdapter on its own *)

AdapterKeys == {"k1", "k2"}
AdapterValues == { [isNull |-> FALSE, v |-> x] : x \in {"a", "b"} }
\* ttlSeconds: 0 stands for an omitted argument
AdapterTtls == {0, 300}
\* the clock advances in steps of half the default TTL
AdapterStep == (defaultTtlSeconds * 1000) \div 2

AdapterOp(op, key, before, value) ==
    [op |-> op, key |-> key, at |-> now, before |-> before, value |-> value]

AdapterGet ==
    /\ \E key \in AdapterKeys :
         LET r == cacheGet(cache, key, now)
         IN  /\ cache' = r.cache
             /\ cacheLog' = AdapterOp("get", key, cache, r.value)
    /\ UNCHANGED <<cfg, clientLog, clientPc, countryLog, countryPc, countryCitiesRepo, now,
                   hist, providerLog, faultLog, useCaseLog, favoriteDocs, favoriteRuns,
                   weatherLog>>

AdapterSet ==
    /\ \E key \in AdapterKeys, value \in AdapterValues, ttlSeconds \in AdapterTtls :
         /\ cache' = cacheSet(cache, key, value, ttlSeconds, now)
         /\ cacheLog' = AdapterOp("set", key, cache, value)
    /\ UNCHANGED <<cfg, clientLog, clientPc, countryLog, countryPc, countryCitiesRepo, now,
                   hist, providerLog, faultLog, useCaseLog, favoriteDocs, favoriteRuns,
                   weatherLog>>

AdapterDelete ==
    /\ \E key \in AdapterKeys :
         /\ cache' = MapDelete(cache, key)
         /\ cacheLog' = AdapterOp("delete", key, cache, Null)
    /\ UNCHANGED <<cfg, clientLog, clientPc, countryLog, countryPc, countryCitiesRepo, now,
                   hist, providerLog, faultLog, useCaseLog, favoriteDocs, favoriteRuns,
                   weatherLog>>

AdapterClear ==
    /\ cache' = <<>>
    /\ cacheLog' = AdapterOp("clear", "", cache, Null)
    /\ UNCHANGED <<cfg, clientLog, clientPc, countryLog, countryPc, countryCitiesRepo, now,
                   hist, providerLog, faultLog, useCaseLog, favoriteDocs, favoriteRuns,
                   weatherLog>>

\* Date.now() moves on between two operations
AdapterAdvance ==
    /\ now + AdapterStep <= MaxNow
    /\ now' = now + AdapterStep
    /\ cacheLog' = [op |-> "none"]
    /\ UNCHANGED <<cfg, clientLog, clientPc, countryLog, countryPc, countryCitiesRepo,
                   cache, hist, providerLog, faultLog, useCaseLog, favoriteDocs,
                   favoriteRuns, weatherLog>>

NextCache == AdapterGet \/ AdapterSet \/ AdapterDelete \/ AdapterClear \/ AdapterAdvance

SpecCache == Init /\ [][NextCache]_vars

\* C20: get never returns the value of an entry past its expiry instant: an
\* absent key or an expired entry reads as null, reading an expired entry
\* removes exactly that entry, and a hit changes nothing but the last-access
\* instant of the entry read.
C20_GetRespectsExpiry ==
    cacheLog.op = "get"
        => LET b == cacheLog.before
               key == cacheLog.key
           IN  IF ~HasKey(b, key)
               THEN cacheLog.value = Null /\ cache = b
               ELSE IF cacheLog.at > EntryOf(b, key).expiresAt
               THEN /\ cacheLog.value = Null
                    /\ ~HasKey(cache, key)
                    /\ Len(cache) = Len(b) - 1
                    /\ \A i \in 1..Len(b) : b[i].key # key => HasKey(cache, b[i].key)
                                              /\ EntryOf(cache, b[i].key) = b[i]
               ELSE /\ cacheLog.value = EntryOf(b, key).value
                    /\ Len(cache) = Len(b)
                    /\ \A i \in 1..Len(b) :
                          cache[i] = IF b[i].key = key
                                     THEN [b[i] EXCEPT !.lastAccessed = cacheLog.at]
                                     ELSE b[i]

\* a read of an expired entry, next to a live one: null came back, the expired
\* entry is gone, the live one is still there
C20_Witness ==
    /\ cacheLog.op = "get"
    /\ Len(cacheLog.before) = 2
    /\ HasKey(cacheLog.before, cacheLog.key)
    /\ cacheLog.at > EntryOf(cacheLog.before, cacheLog.key).expiresAt
    /\ cacheLog.value = Null
    /\ Len(cache) = 1
    /\ cache[1].key # cacheLog.key
    /\ cacheLog.at <= cache[1].expiresAt

----------------------------------------------------------------------------
(* MemoryCacheAdapter at capacity: a client that writes a few keys, loads
   filler keys until the map is full, and goes on reading and writing *)

\* everything but the adapter's map, the clock and the adapter's log
aroundCache == <<cfg, clientLog, clientPc, countryLog, countryPc, countryCitiesRepo, hist, providerLog, faultLog, useCaseLog, favoriteDocs, favoriteRuns, weatherLog>>

\* the keys the client works with besides the filler ones; '' is a string too
WorkKeys == {"", "k1"}
WorkValue == [isNull |-> FALSE, v |-> "a"]
FillerKey(i) == "f" \o ToString(i)
\* the clock advances by one default TTL
FullStep == defaultTtlSeconds * 1000

\* the client works on its own keys before the bulk load and once it is over,
\* until the first MaxEvictions filler keys are gone
Working ==
    \/ Len(cache) = 0
    \/ Len(cache) >= maxEntries - 1 /\ HasKey(cache, FillerKey(MaxEvictions + 2))

FullOp(op, key, ttlSeconds, value) ==
    [op |-> op, key |-> key, at |-> now, before |-> cache, ttl |-> ttlSeconds, value |-> value]

FullGet ==
    /\ Working
    /\ \E key \in {"k1", FillerKey(2)} :
         \E r \in {cacheGet(cache, key, now)} :
            /\ cache' = r.cache
            /\ cacheLog' = FullOp("get", key, 0, r.value)
    /\ UNCHANGED <<now, aroundCache>>

FullSet ==
    /\ Working
    /\ \E key \in WorkKeys, ttlSeconds \in AdapterTtls :
         /\ cache' = cacheSet(cache, key, WorkValue, ttlSeconds, now)
         /\ cacheLog' = FullOp("set", key, ttlSeconds, WorkValue)
    /\ UNCHANGED <<now, aroundCache>>

\* the bulk load: one more filler key, with the default TTL
FullLoad ==
    /\ Len(cache) < maxEntries
    /\ \E key \in {FillerKey(Len(cache) + 1)} :
         /\ cache' = cacheSet(cache, key, WorkValue, 0, now)
         /\ cacheLog' = FullOp("set", key, 0, WorkValue)
    /\ UNCHANGED <<now, aroundCache>>

FullDelete ==
    /\ Working
    /\ \E key \in {"k1"} :
         /\ cache' = MapDelete(cache, key)
         /\ cacheLog' = FullOp("delete", key, 0, Null)
    /\ UNCHANGED <<now, aroundCache>>

FullClear ==
    /\ Working
    /\ cache' = <<>>
    /\ cacheLog' = FullOp("clear", "", 0, Null)
    /\ UNCHANGED <<now, aroundCache>>

FullAdvance ==
    /\ Len(cache) >= maxEntries
    /\ now + FullStep <= MaxNow
    /\ now' = now + FullStep
    /\ cacheLog' = [op |-> "none"]
    /\ UNCHANGED <<cache, aroundCache>>

NextCacheFull == FullGet \/ FullSet \/ FullLoad \/ FullDelete \/ FullClear \/ FullAdvance

SpecCacheFull == Init /\ [][NextCacheFull]_vars

\* the entries of map b that have expired at instant t
ExpiredAt(b, t) == { i \in 1..Len(b) : t > b[i].expiresAt }

\* C21: a set on a map at capacity removes exactly one entry before it
\* inserts: an expired one if there is any, otherwise one with the smallest
\* last-access instant; every other entry stays as it was, and the entry
\* written expires at the insertion instant plus the TTL, 600 s when no TTL
\* is given.
C21_SetEvictsOneAtCapacity ==
    cacheLog.op = "set"
        => LET b == cacheLog.before
               t == cacheLog.at
               key == cacheLog.key
               ttl == IF cacheLog.ttl = 0 THEN 600 ELSE cacheLog.ttl
           IN  /\ HasKey(cache, key)
               /\ EntryOf(cache, key) = Entry(key, cacheLog.value, t + ttl * 1000, t)
               /\ Len(b) >= maxEntries
                    => \E v \in 1..Len(b) :
                          /\ IF ExpiredAt(b, t) # {}
                             THEN v \in ExpiredAt(b, t)
                             ELSE \A k \in 1..Len(b) : b[v].lastAccessed <= b[k].lastAccessed
                          /\ b[v].key # key => ~HasKey(cache, b[v].key)
                          /\ \A i \in 1..Len(b) :
                                (i # v /\ b[i].key # key)
                                    => HasKey(cache, b[i].key) /\ EntryOf(cache, b[i].key) = b[i]

\* C22: the map never holds more entries than maxEntries.
C22_SizeBounded == Len(cache) <= maxEntries

\* C28: a set on a key that is already in the map leaves every other
\* unexpired entry in the map.
C28_SetOnPresentKeyFrame ==
    (cacheLog.op = "set" /\ HasKey(cacheLog.before, cacheLog.key))
        => \A i \in 1..Len(cacheLog.before) :
              LET e == cacheLog.before[i]
              IN  (e.key # cacheLog.key /\ cacheLog.at <= e.expiresAt)
                      => HasKey(cache, e.key)

----------------------------------------------------------------------------
(* tryGetWeatherForCityInCountry on its own: one candidate city, every
   pattern of failing and succeeding combinations *)

CandidateCities == {"Madrid", " Vigo", "La  Coruna", "Singapore"}

TryCityCall(cityName, countryCode, outcomes, t) ==
    [op |-> "tryCity", cityName |-> cityName, countryCode |-> countryCode,
     outcomes |-> outcomes, lookups |-> t.lookups, result |-> t.result]

TryGetWeatherForCity ==
    /\ countryPc = "idle"
    /\ \E cityName \in CandidateCities, countryCode \in {"ES", "SG"},
          outcomes \in [1..MaxFails -> AttemptOutcomes] :
         \E t \in {tryVariants(cityName, Variants(cityName, countryCode), outcomes, 1)} :
            countryLog' = TryCityCall(cityName, countryCode, outcomes, t)
    /\ countryPc' = "returned"
    /\ UNCHANGED <<aux, cfg, clientLog, clientPc, countryCitiesRepo, now, cache, hist>>

NextCity == TryGetWeatherForCity \/ CountryReturn

SpecCity == Init /\ [][NextCity]_vars

\* C23: the provider is asked for (original name, country), (original name, no
\* country), (normalized name, country), (normalized name, no country) in this
\* order; the lookups stop at the first combination that succeeds and its
\* result is returned; never more than 4 lookups are issued, and the city has
\* no result only when all 4 failed.
C23_VariantOrder ==
    countryLog.op = "tryCity"
        => LET L == countryLog.lookups
               o == countryLog.outcomes
               normalized == normalizeCityNameForApi(countryLog.cityName)
               succeeds == { k \in 1..4 : o[k] = "ok" }
           IN  /\ Len(L) >= 1 /\ Len(L) <= 4
               /\ \A k \in 1..Len(L) :
                     /\ L[k].name = IF k <= 2 THEN countryLog.cityName ELSE normalized
                     /\ L[k].country = IF k \in {1, 3} THEN countryLog.countryCode ELSE ""
                     /\ L[k].ok = (k \in succeeds)
               /\ IF succeeds = {}
                  THEN Len(L) = 4 /\ countryLog.result.isNull
                  ELSE /\ Len(L) \in succeeds
                       /\ \A k \in succeeds : Len(L) <= k
                       /\ ~countryLog.result.isNull
                       /\ countryLog.result.city = L[Len(L)].name
                       /\ countryLog.result.asked = countryLog.cityName

\* the original name failed with and without the country code, the normalized
\* name succeeded with it, and the fourth combination, which would have
\* succeeded too, was not tried
C23_Witness ==
    /\ countryLog.op = "tryCity"
    /\ countryLog.cityName = "La  Coruna"
    /\ countryLog.outcomes = <<"throws", "unmappable", "ok", "ok">>
    /\ Len(countryLog.lookups) = 3
    /\ countryLog.result.city = "La Coruna"

----------------------------------------------------------------------------
(* mapAPIToWeather on its own: wire responses that the schema accepts *)

ConditionArrays ==
    { <<>>,
      <<Cond("Rain", "light rain")>>,
      <<Cond("Tornado", "tornado"), Cond("Rain", "light rain")>>,
      <<Cond("Snow", "snow"), Cond("Clouds", "few clouds")>> }

\* visibility, wind.speed and wind.deg as they come, or undefined
WireResponses ==
    { [WeatherBody(Place("Madrid", "ES")) EXCEPT
          !.conds = c, !.visibility = v, !.windSpeed = s, !.deg = d, !.absent = a] :
      c \in ConditionArrays, v \in {0, 500, 10000}, s \in {0, 3}, d \in {0, 180},
      a \in SUBSET {"visibility", "windSpeed", "deg"} }

MapResponse ==
    /\ weatherLog.op = "none"
    /\ \E apiResponse \in WireResponses :
         \E w \in {mapAPIToWeather(apiResponse)} :
            weatherLog' = [op |-> "map", apiResponse |-> apiResponse, ok |-> w.ok,
                           weather |-> w.data, err |-> w.err]
    /\ UNCHANGED <<favoriteDocs, favoriteRuns, cacheLog, providerLog, faultLog, useCaseLog, core>>

MapReturn ==
    /\ weatherLog.op = "map"
    /\ weatherLog' = [op |-> "none"]
    /\ UNCHANGED <<favoriteDocs, favoriteRuns, cacheLog, providerLog, faultLog, useCaseLog, core>>

NextMapping == MapResponse \/ MapReturn

SpecMapping == Init /\ [][NextMapping]_vars

\* the value of an optional field, or the default when the field is missing
PresentOr(apiResponse, field, default) ==
    IF field \in apiResponse.absent THEN default ELSE apiResponse[field]

\* C25: the mapping fails with the mapping error on an empty conditions array;
\* otherwise condition and description come from the first element (a main
\* outside the enumeration gives Clear), and visibility, wind speed and wind
\* direction are the values of the response, 10000, 0 and 0 standing in only
\* for a value that is missing.
C25_MappingDefaults ==
    weatherLog.op = "map"
        => LET a == weatherLog.apiResponse
               w == weatherLog.weather
           IN  IF Len(a.conds) = 0
               THEN /\ ~weatherLog.ok
                    /\ weatherLog.err.msg = <<"Formato", "de", "respuesta", "de", "API", "invalido">>
               ELSE /\ weatherLog.ok
                    /\ w.condition = IF a.conds[1].main \in WeatherConditions
                                     THEN a.conds[1].main ELSE "Clear"
                    /\ w.description = a.conds[1].description
                    /\ w.visibility = PresentOr(a, "visibility", 10000)
                    /\ w.windSpeed = PresentOr(a, "windSpeed", 0)
                    /\ w.windDirection = PresentOr(a, "deg", 0)

----------------------------------------------------------------------------
(* WeatherRepositoryImpl.getByCoordinates next to getByCity *)

\* Coordinates.toString on the coordinates used here (toFixed(6))
CoordinatesToString(coordinates) ==
    <<ToString(coordinates.lat) \o ".000000", ",", ToString(coordinates.lon) \o ".000000">>

CoordinatesCall(coordinates, units, ok, result, err) ==
    [op |-> "getByCoordinates", coordinates |-> coordinates, units |-> units,
     args |-> <<coordinates.lat, coordinates.lon,
                IF units # "" THEN UNIT_TO_API_PARAM(units) ELSE "undefined">>,
     calls |-> 1, ok |-> ok, result |-> result, err |-> err]

\* getByCoordinates that stores its result in the cache the way getByCity does
getByCoordinates_cached(cch, coordinates, units, t, r) ==
    LET weather == IF r.ok THEN mapAPIToWeather(r.data) ELSE Rejected(r.err)
        city == IF weather.ok THEN mapAPIToCity(r.data) ELSE Rejected(weather.err)
        context == <<"coords", "(">> \o CoordinatesToString(coordinates) \o <<")">>
    IN  IF city.ok
        THEN LET result == WeatherResult(weather.data, city.data, t)
             IN  [call |-> CoordinatesCall(coordinates, units, TRUE, result, NoError),
                  cache |-> cacheSet(cch, <<"weather", "coords">> \o CoordinatesToString(coordinates),
                                     result, 0, t)]
        ELSE [call |-> CoordinatesCall(coordinates, units, FALSE, NoResult,
                                       handleAPIError(city.err, context)),
              cache |-> cch]

\* getByCoordinates at instant t, r being what the one call of
\* apiClient.getCurrentWeatherByCoordinates yields: the call record and the
\* cache afterwards; cacheService is not used
getByCoordinates(cch, coordinates, units, t, r) ==
    LET weather == IF r.ok THEN mapAPIToWeather(r.data) ELSE Rejected(r.err)
        city == IF weather.ok THEN mapAPIToCity(r.data) ELSE Rejected(weather.err)
        context == <<"coords", "(">> \o CoordinatesToString(coordinates) \o <<")">>
    IN  IF city.ok
        THEN [call |-> CoordinatesCall(coordinates, units, TRUE,
                                       WeatherResult(weather.data, city.data, t), NoError),
              cache |-> cch]
        ELSE [call |-> CoordinatesCall(coordinates, units, FALSE, NoResult,
                                       handleAPIError(city.err, context)),
              cache |-> cch]

\* every outcome the keyed client can produce for a coordinates lookup
CoordinateResults ==
    { ProviderResult(getCurrentWeatherByCoordinates(DefaultConfig, trace)) :
        trace \in WeatherTraces(DefaultConfig, DefaultConfig.maxRetries, Place("Madrid", "ES")) }

CoordinateInputs == { [lat |-> 40, lon |-> -3], [lat |-> 1, lon |-> 104] }

GetByCoordinates ==
    /\ faultLog.op = "none"
    /\ \E coordinates \in CoordinateInputs, units \in TemperatureUnits \cup {""} :
         \E cch \in CachesFor(Params("Madrid", "ES", "celsius")), r \in CoordinateResults :
            \E out \in {getByCoordinates(cch, coordinates, units, 1000, r)} :
               faultLog' = [op |-> "getByCoordinates", before |-> cch, provider |-> r,
                            call |-> out.call, cache |-> out.cache]
    /\ UNCHANGED <<providerLog, useCaseLog, others, core>>

NextRepository == FaultyGetByCity \/ GetByCoordinates \/ FaultyReturn

SpecRepository == Init /\ [][NextRepository]_vars

\* C24: a getByCity call invokes the client's city-name lookup at most once,
\* and not at all when the cache has the result; a getByCoordinates call
\* invokes the coordinates lookup exactly once, whatever it yields, and leaves
\* the cache as it found it.
C24_NoRepositoryRetry ==
    /\ faultLog.op = "getByCity"
         => /\ faultLog.call.calls <= 1
            /\ Len(faultLog.args) = 3 * faultLog.call.calls
            /\ faultLog.call.hit => faultLog.call.calls = 0
    /\ faultLog.op = "getByCoordinates"
         => /\ faultLog.call.calls = 1
            /\ faultLog.cache = faultLog.before

\* a coordinates lookup that succeeded over a cache holding an entry, which is
\* still the only entry
C24_Witness ==
    /\ faultLog.op = "getByCoordinates"
    /\ faultLog.call.ok
    /\ Len(faultLog.before) = 1
    /\ faultLog.cache = faultLog.before
    /\ faultLog.call.args = <<40, -3, "metric">>

----------------------------------------------------------------------------
(* GetWeatherForFavoritesUseCase over GetWeatherByCityUseCase *)

\* Favorite.validate: a city that is not blank, a country of 2 characters
\* once trimmed
FavoriteAccepts(city, country) == Trim(city) # <<>> /\ Len(Trim(country)) = 2

\* the favorites a user can have saved
FavoriteEntries ==
    { f \in [city : {<<"M", "a">>, <<"M">>, <<"M", "1">>},
             country : {<<"E", "S">>, <<"e", "s">>}] : FavoriteAccepts(f.city, f.country) }

MaxFavorites == 2

FavoriteLists == UNION { [1..n -> FavoriteEntries] : n \in 0..MaxFavorites }

\* what the weather repository does for one favorite
FavoriteBehaviours ==
    { b \in RepositoryBehaviours :
        \/ b.kind = "returns"
        \/ b.kind = "throws" /\ b.thrown.cls \in {"NotFoundError", "ConfigurationError"} }

\* the callback of favorites.map: the entry it resolves with, or a rejection
favoriteEntry(fav, units, b) ==
    LET result == execute([cityName |-> fav.city, countryCode |-> fav.country,
                           units |-> units], b).result
    IN  IF result.success
        THEN [threw |-> FALSE, lookup |-> result, city |-> result.value.city,
              weather |-> [isNull |-> FALSE], error |-> <<>>]
        ELSE LET city == CityConstructor(fav.city, fav.country)
             IN  IF city.ok
                 THEN [threw |-> FALSE, lookup |-> result, city |-> city.data,
                       weather |-> Null, error |-> result.error.msg]
                 ELSE [threw |-> TRUE, lookup |-> result, city |-> fav,
                       weather |-> Null, error |-> city.err.msg]

\* GetWeatherForFavoritesUseCase.execute: findAll, one callback per favorite,
\* Promise.all, and the catch around all of it
getWeatherForFavorites(findAllThrows, favorites, units, behaviours) ==
    LET entries == [i \in 1..Len(favorites) |-> favoriteEntry(favorites[i], units, behaviours[i])]
    IN  IF findAllThrows \/ \E i \in 1..Len(favorites) : entries[i].threw
        THEN [lookups |-> IF findAllThrows THEN <<>>
                          ELSE [i \in 1..Len(favorites) |-> entries[i].lookup],
              result |-> Err(ApplicationError(<<"Error", "al", "obtener", "clima", "de",
                                                "favoritos">>, "INTERNAL_ERROR"))]
        ELSE [lookups |-> [i \in 1..Len(favorites) |-> entries[i].lookup],
              result |-> Ok([i \in 1..Len(favorites) |->
                               [city |-> entries[i].city, weather |-> entries[i].weather,
                                error |-> entries[i].error]])]

GetWeatherForFavorites ==
    /\ useCaseLog.op = "none"
    /\ \E favorites \in FavoriteLists, findAllThrows \in BOOLEAN :
         \E behaviours \in [1..Len(favorites) -> FavoriteBehaviours] :
            \E run \in {getWeatherForFavorites(findAllThrows, favorites, "celsius", behaviours)} :
               useCaseLog' = [op |-> "favorites", findAllThrows |-> findAllThrows,
                              favorites |-> favorites, lookups |-> run.lookups,
                              result |-> run.result]
    /\ UNCHANGED <<providerLog, faultLog, others, core>>

NextFavoritesWeather == GetWeatherForFavorites \/ ExecuteReturn

SpecFavoritesWeather == Init /\ [][NextFavoritesWeather]_vars

\* C26: when the favorites can be read, the batch succeeds with one entry per
\* favorite; a favorite whose lookup failed has weather null and an error
\* message, a favorite whose lookup succeeded has its weather.
C26_BatchIsolation ==
    (useCaseLog.op = "favorites" /\ ~useCaseLog.findAllThrows)
        => LET favorites == useCaseLog.favorites
               result == useCaseLog.result
           IN  /\ result.success
               /\ Len(result.value) = Len(favorites)
               /\ \A i \in 1..Len(favorites) :
                     IF useCaseLog.lookups[i].success
                     THEN ~result.value[i].weather.isNull
                     ELSE /\ result.value[i].weather.isNull
                          /\ result.value[i].error # <<>>
                          /\ result.value[i].city.name = favorites[i].city
                          /\ result.value[i].city.country = favorites[i].country

----------------------------------------------------------------------------
(* Units: what the upstream reports for a unit system, and how the Weather
   entity reads the number it is given *)

\* the temperature at the place, in whole degrees Celsius
CelsiusReadings == { 5 * k : k \in -8..9 }

\* main.temp of the upstream's answer to `units`: 'metric' reports Celsius,
\* 'imperial' Fahrenheit
UpstreamTemperature(celsius, units) ==
    CASE units = "metric" -> celsius
      [] units = "imperial" -> (celsius * 9) \div 5 + 32

\* Weather.getTemperatureInUnit, in hundredths of a degree: the stored number
\* is taken as kelvins (convertKelvinToCelsius subtracts 273.15)
getTemperatureInUnit(weather, unit) ==
    CASE unit = "celsius" -> weather.temperature * 100 - 27315
      [] unit = "fahrenheit" -> ((weather.temperature * 100 - 27315) * 9) \div 5 + 3200
      [] OTHER -> weather.temperature * 100

UnitCities == { Place("Madrid", "ES"), Place("Bilbao", "ES"), Place("Singapore", "SG") }

\* getByCity on an empty cache over the keyed client, for a query in celsius
\* or fahrenheit
UnitsLookup ==
    /\ providerLog.op = "none"
    /\ \E celsius \in CelsiusReadings, place \in UnitCities, units \in {"celsius", "fahrenheit"} :
         \E params \in {Params(place.name, place.country, units)} :
            \E sent \in {apiClientArguments(params)[3]} :
               \E body \in {[WeatherBody(place) EXCEPT !.temp = UpstreamTemperature(celsius, sent)]} :
                  \E x \in {getCurrentWeatherByCityName(
                                DefaultConfig, params.name, params.country,
                                Wire("ok", 200, 0, GeoBody(1, place)),
                                <<Wire("ok", 200, 0, body)>>)} :
                     \E out \in {getByCity(<<>>, params, 0, 0, ProviderResult(x))} :
                        providerLog' = [op |-> "units", celsius |-> celsius, params |-> params,
                                        sent |-> sent, wire |-> body.temp,
                                        ok |-> out.call.ok, result |-> out.call.result]
    /\ UNCHANGED <<faultLog, useCaseLog, others, core>>

NextUnits == UnitsLookup \/ ProviderReturn

SpecUnits == Init /\ [][NextUnits]_vars

\* C27: the Weather returned for a query in celsius or fahrenheit reads back,
\* through getTemperatureInUnit of the queried unit, as the temperature the
\* provider reported in that unit (compared in hundredths of a degree).
C27_UnitsAgree ==
    providerLog.op = "units"
        => /\ providerLog.ok
           /\ getTemperatureInUnit(providerLog.result.weather, providerLog.params.units)
                = 100 * (IF providerLog.params.units = "celsius"
                         THEN providerLog.celsius
                         ELSE (providerLog.celsius * 9) \div 5 + 32)

----------------------------------------------------------------------------
(* The retry loop under every accepted retry count *)

\* C29: a call of the keyed client that fails with MAX_RETRIES_EXCEEDED has
\* issued at least one HTTP request.
C29_RequestBeforeExhaustion ==
    (clientPc = "returned" /\ ~clientLog.ok /\ clientLog.err.code = "MAX_RETRIES_EXCEEDED")
        => clientLog.geoRequests + Len(clientLog.attempts) >= 1

----------------------------------------------------------------------------
(* getByCoordinates over the keyless provider *)

\* OpenMeteoClient.getCurrentWeatherByCoordinates: one forecast request w; the
\* adapted payload has name '' and no country
OpenMeteoClient_getCurrentWeatherByCoordinates(lat, lon, w) ==
    IF w.kind # "ok" THEN Rejected(RawAxiosError(DefaultConfig, w))
    ELSE Resolved([NoBody EXCEPT !.shape = "weather", !.cod = 200,
                                 !.lat = lat, !.lon = lon,
                                 !.conds = <<Cond("Clear", "Clear sky (Open-Meteo)")>>,
                                 !.temp = w.body.temp,
                                 !.pressure = w.body.pressure,
                                 !.humidity = w.body.humidity,
                                 !.visibility = 10000,
                                 !.windSpeed = w.body.windSpeed,
                                 !.deg = w.body.deg,
                                 !.name = "",
                                 !.absent = {"country"}])

\* what the forecast endpoint does: a payload with reading rd, or a failure
ForecastOutcomes ==
    { Wire("ok", 200, 0, ReadingBody(rd, "")) : rd \in Readings }
    \cup { Wire("http", 500, 0, NoBody), Wire("timeout", 0, 0, NoBody) }

\* the ranges of the schema and of the Weather entity
InRange(body) ==
    /\ validateTemperature(body.temp)
    /\ body.pressure > 0
    /\ body.humidity >= 0 /\ body.humidity <= 100
    /\ body.windSpeed >= 0

KeylessByCoordinates ==
    /\ providerLog.op = "none"
    /\ \E coordinates \in CoordinateInputs, units \in TemperatureUnits \cup {""},
          w \in ForecastOutcomes :
         \E x \in {OpenMeteoClient_getCurrentWeatherByCoordinates(
                       coordinates.lat, coordinates.lon, w)} :
            \E r \in {[ok |-> x.ok, data |-> x.data, err |-> x.err, last |-> NoWire]} :
               \E out \in {getByCoordinates(<<>>, coordinates, units, 0, r)} :
                  providerLog' = [op |-> "coordinates", upstream |-> w, adapted |-> x.data,
                                  call |-> out.call]
    /\ UNCHANGED <<faultLog, useCaseLog, others, core>>

NextKeyless == KeylessByCoordinates \/ ProviderReturn

SpecKeyless == Init /\ [][NextKeyless]_vars

\* C30: with the keyless provider wired in, getByCoordinates returns a
\* WeatherResult whenever the forecast request succeeds with values in range.
C30_KeylessCoordinates ==
    (/\ providerLog.op = "coordinates"
     /\ providerLog.upstream.kind = "ok"
     /\ InRange(providerLog.upstream.body))
        => /\ providerLog.call.ok
           /\ ~providerLog.call.result.isNull

====
